---- MODULE Spec2Model ----
(***************************************************************************)
(* Model of formatrix-core: the format resolver (file_ops.rs), the file    *)
(* pipeline (file_ops.rs), the AsciiDoc handler (formats/asciidoc.rs) and  *)
(* the C interface (ffi.rs).                                               *)
(*                                                                         *)
(* A Rust string is modelled as a sequence of one-character strings, so    *)
(* that trim, starts_with, contains and lines are computed character by    *)
(* character as the standard library computes them.                        *)
(***************************************************************************)
EXTENDS Integers, Sequences, FiniteSets, TLC

VARIABLES
    pc,          \* position of the caller of the specification at hand
    \* format resolver (file_ops.rs)
    content,     \* format_from_content: the text handed to the detector
    detected,    \* format_from_content: its result, "unset" before the call
    path,        \* format_from_extension: the path handed to the lookup
    extFormat,   \* format_from_extension: its result (an Option)
    \* AsciiDoc handler (formats/asciidoc.rs)
    srcDoc,      \* the Document handed to render
    parseConfig, \* the ParseConfig handed to parse
    rendered,    \* Option: the text render returned
    parseInput,  \* the text handed to parse
    parsed,      \* Option: the Document parse returned
    \* file pipeline (file_ops.rs)
    fs,          \* the file system: path -> Option of a file
    opened,      \* Option: the OpenedDocument of the last successful open
    fileResult,  \* the last call: its name, arguments and FileResult
    steps,       \* the stages the last call went through, in order
    \* C interface (ffi.rs)
    handle,      \* Option: the Document behind the caller's DocumentHandle
    ffiCall,     \* the last call: its name, arguments, FfiResult and outputs
    \* convert_block (formats/asciidoc.rs)
    adocBlock,   \* the block of the asciidoc_parser tree handed to it
    converted,   \* its result (an Option), "unset" before the call
    \* FormatHandler for AsciidocHandler (formats/asciidoc.rs)
    featureCall, \* the last call: its name, argument and result
    \* the callers of the C interface and the handles they hold (ffi.rs)
    heap,        \* address -> Option: the Document of a live DocumentHandle
    created,     \* address -> Option: the Document as formatrix_parse made it
    owner,       \* caller -> the address it holds, 0 for the null pointer
    strings,     \* the number of live strings handed out by the library
    lastCall     \* the last call: the caller, the function, the results

contentVars == <<content, detected>>
extVars == <<path, extFormat>>
adocVars == <<srcDoc, parseConfig, rendered, parseInput, parsed>>
fileVars == <<fs, opened, fileResult, steps>>
ffiVars == <<handle, ffiCall>>
convVars == <<adocBlock, converted>>
featureVars == <<featureCall>>
heapVars == <<heap, created, owner, strings, lastCall>>
vars ==
    <<pc, contentVars, extVars, adocVars, fileVars, ffiVars, convVars,
      featureVars, heapVars>>

\* Option<T>: None is the empty tuple, Some(x) the one-element tuple
None == <<>>
Some(x) == <<x>>
is_some(o) == o # <<>>
unwrap_or(o, d) == IF o = <<>> THEN d ELSE o[1]

\* the values of the variables a specification does not use
ContentIdle == content = <<>> /\ detected = "unset"
ExtIdle == path = <<>> /\ extFormat = None
AdocIdle ==
    /\ srcDoc = <<>>
    /\ parseConfig = <<>>
    /\ rendered = None
    /\ parseInput = <<>>
    /\ parsed = None
FileIdle ==
    /\ fs = <<>>
    /\ opened = None
    /\ fileResult = [op |-> "none"]
    /\ steps = <<>>
FfiIdle == handle = <<>> /\ ffiCall = [fn |-> "none"]
ConvIdle == adocBlock = <<>> /\ converted = "unset"
FeatureIdle == featureCall = [fn |-> "none"]
HeapIdle ==
    /\ heap = <<>>
    /\ created = <<>>
    /\ owner = <<>>
    /\ strings = 0
    /\ lastCall = [fn |-> "none"]

----------------------------------------------------------------------------
(* str primitives                                                          *)

NL == "\n"

\* the grave accent character (U+0060), written as a two-letter atom
BQ == "bq"

\* char::is_whitespace, restricted to the ASCII white space characters
IsWhite(c) == c \in {" ", "\n", "\t", "\r"}

RECURSIVE TrimStart(_)
TrimStart(s) ==
    IF s # <<>> /\ IsWhite(Head(s)) THEN TrimStart(Tail(s)) ELSE s

RECURSIVE TrimEnd(_)
TrimEnd(s) ==
    IF s # <<>> /\ IsWhite(s[Len(s)])
    THEN TrimEnd(SubSeq(s, 1, Len(s) - 1))
    ELSE s

\* str::trim
trim(s) == TrimEnd(TrimStart(s))

\* str::starts_with
starts_with(s, p) == Len(s) >= Len(p) /\ SubSeq(s, 1, Len(p)) = p

\* str::ends_with
ends_with(s, p) ==
    Len(s) >= Len(p) /\ SubSeq(s, Len(s) - Len(p) + 1, Len(s)) = p

\* str::contains
contains(s, p) ==
    \E i \in 1..(Len(s) - Len(p) + 1) : SubSeq(s, i, i + Len(p) - 1) = p

\* index of the first occurrence of character c in s, 0 when there is none
RECURSIVE FindChar(_, _, _)
FindChar(s, c, i) ==
    IF i > Len(s) THEN 0
    ELSE IF s[i] = c THEN i
    ELSE FindChar(s, c, i + 1)

\* str::lines: split after every "\n"; a line's "\n" and a "\r" before it
\* are removed; an empty rest yields no line
RECURSIVE lines(_)
lines(s) ==
    IF s = <<>> THEN <<>>
    ELSE LET k == FindChar(s, NL, 1) IN
         IF k = 0 THEN <<s>>
         ELSE LET raw == SubSeq(s, 1, k - 1)
                  line == IF ends_with(raw, <<"\r">>)
                          THEN SubSeq(raw, 1, Len(raw) - 1)
                          ELSE raw
              IN  <<line>> \o lines(SubSeq(s, k + 1, Len(s)))

RECURSIVE Concat(_)
Concat(ss) == IF ss = <<>> THEN <<>> ELSE Head(ss) \o Concat(Tail(ss))

----------------------------------------------------------------------------
(* ast::SourceFormat                                                       *)

SourceFormat ==
    {"PlainText", "Markdown", "AsciiDoc", "Djot", "OrgMode",
     "ReStructuredText", "Typst"}

----------------------------------------------------------------------------
(* file_ops::format_from_content                                           *)

\* the conditions of the cascade, each on the trimmed text
OrgRule(t) == starts_with(t, <<"#", "+">>) \/ contains(t, <<NL, "#", "+">>)

\* the title condition without the exclusion of "= {"
AsciiDocTitleRule_NoExclusion(t) == starts_with(t, <<"=", " ">>)

AsciiDocTitleRule(t) ==
    starts_with(t, <<"=", " ">>) /\ ~starts_with(t, <<"=", " ", "{">>)

AsciiDocTocRule(t) ==
    \/ starts_with(t, <<":", "t", "o", "c", ":">>)
    \/ contains(t, <<NL, ":", "t", "o", "c", ":">>)

TypstKeywordRule(t) ==
    \/ contains(t, <<"#", "l", "e", "t", " ">>)
    \/ contains(t, <<"#", "s", "e", "t", " ">>)
    \/ contains(t, <<"#", "s", "h", "o", "w", " ">>)

TypstBracketRule(t) == starts_with(t, <<"#", "[">>) \/ contains(t, <<NL, "#", "[">>)

RstDirectiveRule(t) ==
    /\ contains(t, <<".", ".", " ">>)
    /\ \/ contains(t, <<":", ":">>)
       \/ contains(t, <<".", ".", " ", "c", "o", "d", "e", "-",
                        "b", "l", "o", "c", "k", ":", ":">>)

IsUnderlineLine(line) ==
    /\ Len(line) > 3
    /\ \A i \in 1..Len(line) : line[i] \in {"=", "-", "~", "^"}

RstUnderlineRule(t) ==
    LET ls == lines(t) IN \E i \in 1..Len(ls) : IsUnderlineLine(ls[i])

DjotRule(t) == contains(t, <<"{", ".">>) \/ contains(t, <<"[", "^">>)

MarkdownHeadingRule(t) == starts_with(t, <<"#", " ">>) \/ contains(t, <<NL, "#", " ">>)

MarkdownFenceRule(t) ==
    contains(t, <<BQ, BQ, BQ>>) \/ contains(t, <<"~", "~", "~">>)

MarkdownLinkRule(t) ==
    contains(t, <<"[", "]", "(">>) \/ contains(t, <<"!", "[", "]", "(">>)

\* the cascade with the Markdown checks moved before the Djot check
format_from_content_MarkdownFirst(c) ==
    LET trimmed == trim(c) IN
    IF OrgRule(trimmed) THEN "OrgMode"
    ELSE IF AsciiDocTitleRule(trimmed) THEN "AsciiDoc"
    ELSE IF AsciiDocTocRule(trimmed) THEN "AsciiDoc"
    ELSE IF TypstKeywordRule(trimmed) THEN "Typst"
    ELSE IF TypstBracketRule(trimmed) THEN "Typst"
    ELSE IF RstDirectiveRule(trimmed) THEN "ReStructuredText"
    ELSE IF RstUnderlineRule(trimmed) THEN "ReStructuredText"
    ELSE IF MarkdownHeadingRule(trimmed) THEN "Markdown"
    ELSE IF MarkdownFenceRule(trimmed) THEN "Markdown"
    ELSE IF MarkdownLinkRule(trimmed) THEN "Markdown"
    ELSE IF DjotRule(trimmed) THEN "Djot"
    ELSE "PlainText"

format_from_content(c) ==
    LET trimmed == trim(c) IN
    IF OrgRule(trimmed) THEN "OrgMode"
    ELSE IF AsciiDocTitleRule(trimmed) THEN "AsciiDoc"
    ELSE IF AsciiDocTocRule(trimmed) THEN "AsciiDoc"
    ELSE IF TypstKeywordRule(trimmed) THEN "Typst"
    ELSE IF TypstBracketRule(trimmed) THEN "Typst"
    ELSE IF RstDirectiveRule(trimmed) THEN "ReStructuredText"
    ELSE IF RstUnderlineRule(trimmed) THEN "ReStructuredText"
    ELSE IF DjotRule(trimmed) THEN "Djot"
    ELSE IF MarkdownHeadingRule(trimmed) THEN "Markdown"
    ELSE IF MarkdownFenceRule(trimmed) THEN "Markdown"
    ELSE IF MarkdownLinkRule(trimmed) THEN "Markdown"
    ELSE "PlainText"

----------------------------------------------------------------------------
(* Inputs of the detector: texts built from marker fragments               *)

MaxFragments == 3

Fragments ==
    { <<"#", "+">>, <<NL>>, <<" ">>, <<"=", " ">>, <<"{">>,
      <<":", "t", "o", "c", ":">>, <<NL, ":", "t", "o", "c", ":">>,
      <<"#", "l", "e", "t", " ">>, <<"#", "[">>,
      <<".", ".", " ">>, <<":", ":">>, <<"=", "=">>, <<"-", "-">>,
      <<"{", ".">>, <<"[", "^">>, <<"#", " ">>, <<BQ, BQ, BQ>>,
      <<"~", "~", "~">>, <<"]", "(">>, <<"[">>, <<"x">> }

InitContent ==
    /\ pc = "start"
    /\ ExtIdle /\ AdocIdle /\ FileIdle /\ FfiIdle
    /\ ConvIdle /\ FeatureIdle
    /\ HeapIdle
    /\ \E n \in 0..MaxFragments :
           \E f \in [1..n -> Fragments] : content = Concat(f)
    /\ detected = "unset"

\* a call of format_from_content(content)
DetectContent ==
    /\ detected = "unset"
    /\ detected' = format_from_content(content)
    /\ pc' = "done"
    /\ UNCHANGED <<content, extVars, adocVars, fileVars, ffiVars,
                   convVars, featureVars,
                   heapVars>>

NextContent == DetectContent

SpecContent == InitContent /\ [][NextContent]_vars

----------------------------------------------------------------------------
(* Claims about format_from_content                                        *)

\* the order of the rules as the specification lists them
RuleOrder ==
    <<"OrgMode", "AsciiDoc", "Typst", "ReStructuredText", "Djot", "Markdown">>

\* rule number i matches the trimmed text t
RuleMatches(i, t) ==
    CASE i = 1 -> OrgRule(t)
      [] i = 2 -> AsciiDocTitleRule(t) \/ AsciiDocTocRule(t)
      [] i = 3 -> TypstKeywordRule(t) \/ TypstBracketRule(t)
      [] i = 4 -> RstDirectiveRule(t) \/ RstUnderlineRule(t)
      [] i = 5 -> DjotRule(t)
      [] i = 6 -> MarkdownHeadingRule(t) \/ MarkdownFenceRule(t)
                  \/ MarkdownLinkRule(t)

\* the format of the earliest rule numbered from..6 that matches t,
\* PlainText when none does
EarliestFrom(from, t) ==
    LET hits == { i \in from..6 : RuleMatches(i, t) } IN
    IF hits = {} THEN "PlainText"
    ELSE RuleOrder[CHOOSE i \in hits : \A j \in hits : i <= j]

\* C1: format_from_content returns the format of the first rule that
\* matches in the order Org-mode, AsciiDoc, Typst, reStructuredText, Djot,
\* Markdown, and PlainText exactly when no rule matches.
C1_EarliestRuleWins ==
    detected # "unset" =>
        LET t == trim(content) IN
        /\ detected = EarliestFrom(1, t)
        /\ (detected = "PlainText") <=> (\A i \in 1..6 : ~RuleMatches(i, t))

\* a text with a line starting "#+" and a first line starting "# " was
\* resolved to OrgMode
C1_Witness ==
    /\ detected = "OrgMode"
    /\ MarkdownHeadingRule(trim(content))
    /\ contains(trim(content), <<NL, "#", "+">>)

\* some line of t begins with the attribute name :toc:
HasTocLine(t) ==
    LET ls == lines(t) IN
    \E i \in 1..Len(ls) : starts_with(ls[i], <<":", "t", "o", "c", ":">>)

\* C2 as stated, on the text as given: a text that matches no Org-mode
\* marker and begins with "= " but not "= {" resolves to AsciiDoc, and a
\* text that begins with "= {" resolves to AsciiDoc only through a :toc:
\* line.
C2_AsStated ==
    (detected # "unset" /\ ~OrgRule(content)) =>
        /\ (starts_with(content, <<"=", " ">>)
               /\ ~starts_with(content, <<"=", " ", "{">>))
             => detected = "AsciiDoc"
        /\ starts_with(content, <<"=", " ", "{">>)
             => (detected = "AsciiDoc" => HasTocLine(content))

\* C2, amended: the same statement about the text with its leading and
\* trailing white space removed. When the trimmed text begins with "= {",
\* the result is AsciiDoc exactly when a line begins with :toc:, and is
\* otherwise the result of the later rules (Typst, RST, Djot, Markdown) or
\* PlainText.
C2_TitleRuleOnTrimmedText ==
    LET t == trim(content) IN
    (detected # "unset" /\ ~OrgRule(t)) =>
        /\ (starts_with(t, <<"=", " ">>) /\ ~starts_with(t, <<"=", " ", "{">>))
             => detected = "AsciiDoc"
        /\ starts_with(t, <<"=", " ", "{">>)
             => /\ (detected = "AsciiDoc") <=> HasTocLine(t)
                /\ ~HasTocLine(t) => detected = EarliestFrom(3, t)

\* a text beginning with "= {" was resolved by a later rule, not as AsciiDoc
C2_Witness ==
    /\ starts_with(trim(content), <<"=", " ", "{">>)
    /\ detected \notin {"unset", "AsciiDoc", "OrgMode", "PlainText"}

\* C3: a text matching none of rules 1-5 resolves to Markdown whenever it
\* contains the marker "](" anywhere.
C3_LinkMarkerIsMarkdown ==
    LET t == trim(content) IN
    (/\ detected # "unset"
     /\ \A i \in 1..5 : ~RuleMatches(i, t)
     /\ contains(t, <<"]", "(">>))
        => detected = "Markdown"

\* the line is one character of {=,-,~,^} repeated, more than 3 times
IsUniformUnderline(line) ==
    /\ Len(line) > 3
    /\ line[1] \in {"=", "-", "~", "^"}
    /\ \A i \in 1..Len(line) : line[i] = line[1]

\* C4: for a text matching none of rules 1-3 (and not the directive form
\* of the reStructuredText rule), the result is reStructuredText exactly
\* when some line is one underline character repeated more than 3 times.
C4_UnderlineIsOneCharacter ==
    LET t == trim(content)
        ls == lines(t)
    IN  (/\ detected # "unset"
         /\ \A i \in 1..3 : ~RuleMatches(i, t)
         /\ ~RstDirectiveRule(t))
            => ((detected = "ReStructuredText")
                  <=> \E i \in 1..Len(ls) : IsUniformUnderline(ls[i]))

----------------------------------------------------------------------------
(* std::path::Path::extension and str::to_lowercase, as format_from_extension*)
(* uses them                                                               *)

LowerLetters ==
    <<"a", "b", "c", "d", "e", "f", "g", "h", "i", "j", "k", "l", "m",
      "n", "o", "p", "q", "r", "s", "t", "u", "v", "w", "x", "y", "z">>

UpperLetters ==
    <<"A", "B", "C", "D", "E", "F", "G", "H", "I", "J", "K", "L", "M",
      "N", "O", "P", "Q", "R", "S", "T", "U", "V", "W", "X", "Y", "Z">>

\* char::to_lowercase on the ASCII letters; other characters of the model
\* have no lower-case form
char_to_lowercase(c) ==
    LET k == FindChar(UpperLetters, c, 1) IN
    IF k = 0 THEN c ELSE LowerLetters[k]

char_to_uppercase(c) ==
    LET k == FindChar(LowerLetters, c, 1) IN
    IF k = 0 THEN c ELSE UpperLetters[k]

\* str::to_lowercase
to_lowercase(s) == [i \in 1..Len(s) |-> char_to_lowercase(s[i])]

RECURSIVE split(_, _)
split(s, c) ==
    LET k == FindChar(s, c, 1) IN
    IF k = 0 THEN <<s>>
    ELSE <<SubSeq(s, 1, k - 1)>> \o split(SubSeq(s, k + 1, Len(s)), c)

IsNamedComponent(x) == x # <<>> /\ x # <<".">>

\* Path::file_name: the last component, unless the path is empty, is the
\* root, or ends in ".."; repeated separators and "." components are skipped
Path_file_name(p) ==
    LET cs == SelectSeq(split(p, "/"), IsNamedComponent) IN
    IF cs = <<>> \/ cs[Len(cs)] = <<".", ".">> THEN None
    ELSE Some(cs[Len(cs)])

\* index of the last "." of s, 0 when there is none
RECURSIVE LastDot(_, _)
LastDot(s, i) ==
    IF i = 0 THEN 0 ELSE IF s[i] = "." THEN i ELSE LastDot(s, i - 1)

\* Path::extension: the part of the file name after its last ".", None when
\* there is no "." or the only "." starts the name
Path_extension(p) ==
    LET fn == Path_file_name(p) IN
    IF fn = None THEN None
    ELSE LET f == fn[1]
             k == LastDot(f, Len(f))
         IN  IF k <= 1 THEN None ELSE Some(SubSeq(f, k + 1, Len(f)))

----------------------------------------------------------------------------
(* file_ops::format_from_extension                                         *)

\* the lookup without the conversion to lower case
format_from_extension_CaseSensitive(p) ==
    LET e == Path_extension(p) IN
    IF e = None THEN None
    ELSE LET ext == e[1] IN
         IF ext \in {<<"t", "x", "t">>, <<"t", "e", "x", "t">>}
              THEN Some("PlainText")
         ELSE IF ext \in {<<"m", "d">>, <<"m", "a", "r", "k", "d", "o", "w", "n">>, <<"m", "d", "o", "w", "n">>, <<"m", "k", "d">>}
              THEN Some("Markdown")
         ELSE IF ext \in {<<"a", "d", "o", "c">>, <<"a", "s", "c", "i", "i", "d", "o", "c">>, <<"a", "s", "c">>}
              THEN Some("AsciiDoc")
         ELSE IF ext \in {<<"d", "j">>, <<"d", "j", "o", "t">>}
              THEN Some("Djot")
         ELSE IF ext \in {<<"o", "r", "g">>}
              THEN Some("OrgMode")
         ELSE IF ext \in {<<"r", "s", "t">>, <<"r", "e", "s", "t">>, <<"r", "e", "s", "t", "r", "u", "c", "t", "u", "r", "e", "d", "t", "e", "x", "t">>}
              THEN Some("ReStructuredText")
         ELSE IF ext \in {<<"t", "y", "p">>, <<"t", "y", "p", "s", "t">>}
              THEN Some("Typst")
         ELSE None

format_from_extension(p) ==
    LET e == Path_extension(p) IN
    IF e = None THEN None
    ELSE LET ext == to_lowercase(e[1]) IN
         IF ext \in {<<"t", "x", "t">>, <<"t", "e", "x", "t">>}
              THEN Some("PlainText")
         ELSE IF ext \in {<<"m", "d">>, <<"m", "a", "r", "k", "d", "o", "w", "n">>, <<"m", "d", "o", "w", "n">>, <<"m", "k", "d">>}
              THEN Some("Markdown")
         ELSE IF ext \in {<<"a", "d", "o", "c">>, <<"a", "s", "c", "i", "i", "d", "o", "c">>, <<"a", "s", "c">>}
              THEN Some("AsciiDoc")
         ELSE IF ext \in {<<"d", "j">>, <<"d", "j", "o", "t">>}
              THEN Some("Djot")
         ELSE IF ext \in {<<"o", "r", "g">>}
              THEN Some("OrgMode")
         ELSE IF ext \in {<<"r", "s", "t">>, <<"r", "e", "s", "t">>, <<"r", "e", "s", "t", "r", "u", "c", "t", "u", "r", "e", "d", "t", "e", "x", "t">>}
              THEN Some("ReStructuredText")
         ELSE IF ext \in {<<"t", "y", "p">>, <<"t", "y", "p", "s", "t">>}
              THEN Some("Typst")
         ELSE None

----------------------------------------------------------------------------
(* Inputs of the extension lookup: directory, stem, optional dot, and an   *)
(* extension in one of the letter-casings of period CaseBits               *)

CaseBits == 4

Dirs == { <<>>, <<"d", ".", "m", "d", "/">> }

Stems == { <<>>, <<"f">>, <<"f", ".", "t", "x", "t">> }

Extensions ==
    { <<"t", "x", "t">>,
      <<"t", "e", "x", "t">>,
      <<"m", "d">>,
      <<"m", "a", "r", "k", "d", "o", "w", "n">>,
      <<"m", "d", "o", "w", "n">>,
      <<"m", "k", "d">>,
      <<"a", "d", "o", "c">>,
      <<"a", "s", "c", "i", "i", "d", "o", "c">>,
      <<"a", "s", "c">>,
      <<"d", "j">>,
      <<"d", "j", "o", "t">>,
      <<"o", "r", "g">>,
      <<"r", "s", "t">>,
      <<"r", "e", "s", "t">>,
      <<"r", "e", "s", "t", "r", "u", "c", "t", "u", "r", "e", "d", "t", "e", "x", "t">>,
      <<"t", "y", "p">>,
      <<"t", "y", "p", "s", "t">>,
      <<"x", "y", "z">>,
      <<"d", "o", "c", "x">>,
      <<"m", "d", "x">>,
      <<"m">>,
      <<>> }

\* bit number i of the casing pattern c
Bit(c, i) == (c \div (2 ^ i)) % 2 = 1

\* e with the letter at position i in upper case when bit (i-1) mod CaseBits
\* of c is set
ApplyCase(e, c) ==
    [i \in 1..Len(e) |->
        IF Bit(c, (i - 1) % CaseBits) THEN char_to_uppercase(e[i]) ELSE e[i]]

InitExtension ==
    /\ pc = "start"
    /\ ContentIdle /\ AdocIdle /\ FileIdle /\ FfiIdle
    /\ ConvIdle /\ FeatureIdle
    /\ HeapIdle
    /\ extFormat = None
    /\ \E d \in Dirs, st \in Stems, dot \in BOOLEAN, e \in Extensions,
          c \in 0..(2 ^ CaseBits - 1) :
           path = d \o st \o (IF dot THEN <<".">> ELSE <<>>) \o ApplyCase(e, c)

\* a call of format_from_extension(path)
DetectExtension ==
    /\ pc = "start"
    /\ extFormat' = format_from_extension(path)
    /\ pc' = "done"
    /\ UNCHANGED <<path, contentVars, adocVars, fileVars, ffiVars,
                   convVars, featureVars,
                   heapVars>>

NextExtension == DetectExtension

SpecExtension == InitExtension /\ [][NextExtension]_vars

----------------------------------------------------------------------------
(* Claims about format_from_extension                                      *)

\* the aliases as the specification lists them, with the format of each
Aliases ==
    { <<<<"t", "x", "t">>, "PlainText">>,
      <<<<"t", "e", "x", "t">>, "PlainText">>,
      <<<<"m", "d">>, "Markdown">>,
      <<<<"m", "a", "r", "k", "d", "o", "w", "n">>, "Markdown">>,
      <<<<"m", "d", "o", "w", "n">>, "Markdown">>,
      <<<<"m", "k", "d">>, "Markdown">>,
      <<<<"a", "d", "o", "c">>, "AsciiDoc">>,
      <<<<"a", "s", "c", "i", "i", "d", "o", "c">>, "AsciiDoc">>,
      <<<<"a", "s", "c">>, "AsciiDoc">>,
      <<<<"d", "j">>, "Djot">>,
      <<<<"d", "j", "o", "t">>, "Djot">>,
      <<<<"o", "r", "g">>, "OrgMode">>,
      <<<<"r", "s", "t">>, "ReStructuredText">>,
      <<<<"r", "e", "s", "t">>, "ReStructuredText">>,
      <<<<"r", "e", "s", "t", "r", "u", "c", "t", "u", "r", "e", "d", "t", "e", "x", "t">>, "ReStructuredText">>,
      <<<<"t", "y", "p">>, "Typst">>,
      <<<<"t", "y", "p", "s", "t">>, "Typst">> }

\* C5: the lookup does not depend on the letter-casing of the extension,
\* every listed alias yields its format, and a missing or unlisted
\* extension yields None.
C5_ExtensionLookup ==
    pc = "done" /\ path # <<>> =>
        LET e == Path_extension(path) IN
        /\ extFormat = format_from_extension(to_lowercase(path))
        /\ \A a \in Aliases :
               (e # None /\ to_lowercase(e[1]) = a[1]) => extFormat = Some(a[2])
        /\ (e = None \/ \A a \in Aliases : to_lowercase(e[1]) # a[1])
               => extFormat = None

\* a path whose extension is written MD was looked up as Markdown
C5_Witness ==
    /\ pc = "done"
    /\ Path_extension(path) = Some(<<"M", "D">>)
    /\ extFormat = Some("Markdown")

----------------------------------------------------------------------------
(* The canonical document tree (ast), as formats/asciidoc.rs builds and    *)
(* reads it.  Every node is a record with a kind.                          *)

Text(s) == [kind |-> "Text", content |-> s]
Emphasis(inl) == [kind |-> "Emphasis", content |-> inl]
Strong(inl) == [kind |-> "Strong", content |-> inl]
Strikethrough(inl) == [kind |-> "Strikethrough", content |-> inl]
Code(s) == [kind |-> "Code", content |-> s]
Link(url, inl, title) ==
    [kind |-> "Link", url |-> url, content |-> inl, title |-> title]
Image(url, alt, title) ==
    [kind |-> "Image", url |-> url, alt |-> alt, title |-> title,
     width |-> None, height |-> None]
Math(s) == [kind |-> "Math", content |-> s]
LineBreak == [kind |-> "LineBreak"]
SoftBreak == [kind |-> "SoftBreak"]

Paragraph(inl) == [kind |-> "Paragraph", content |-> inl]
Heading(level, inl, id) ==
    [kind |-> "Heading", level |-> level, content |-> inl, id |-> id]
CodeBlock(language, s) ==
    [kind |-> "CodeBlock", language |-> language, content |-> s,
     line_numbers |-> FALSE, highlight_lines |-> <<>>]
BlockQuote(blocks, attribution) ==
    [kind |-> "BlockQuote", content |-> blocks, attribution |-> attribution,
     admonition |-> None]
ListItem(blocks, checked) == [content |-> blocks, checked |-> checked]
List(list_kind, items, start) ==
    [kind |-> "List", list_kind |-> list_kind, items |-> items,
     start |-> start]
ThematicBreak == [kind |-> "ThematicBreak"]
Raw(format, s) == [kind |-> "Raw", format |-> format, content |-> s]
Container(classes, blocks) ==
    [kind |-> "Container", id |-> None, classes |-> classes,
     content |-> blocks]
TableCell(blocks) == [content |-> blocks]
TableRow(cells) == [cells |-> cells]
Table(header, body, caption) ==
    [kind |-> "Table", header |-> header, body |-> body,
     caption |-> caption]
MathBlock(s) == [kind |-> "MathBlock", content |-> s]

Document(source_format, title, blocks, raw_source) ==
    [source_format |-> source_format, meta |-> [title |-> title],
     content |-> blocks, raw_source |-> raw_source]

\* Result<T, E>
Ok(v) == [ok |-> TRUE, value |-> v]
Err(e) == [ok |-> FALSE, error |-> e]

----------------------------------------------------------------------------
(* formats/asciidoc.rs: the renderer                                       *)

\* the repeat that writes one character too few
RECURSIVE Repeat_Short(_, _)
Repeat_Short(c, n) ==
    IF n <= 1 THEN <<>> ELSE <<c>> \o Repeat_Short(c, n - 1)

RECURSIVE Repeat(_, _)
Repeat(c, n) == IF n <= 0 THEN <<>> ELSE <<c>> \o Repeat(c, n - 1)

DecimalDigits == <<"0", "1", "2", "3", "4", "5", "6", "7", "8", "9">>

\* format!("{}", n) of an unsigned number
RECURSIVE Decimal(_)
Decimal(n) ==
    IF n < 10 THEN <<DecimalDigits[n + 1]>>
    ELSE Decimal(n \div 10) \o <<DecimalDigits[(n % 10) + 1]>>

\* content, always followed by one more newline
WithFinalNewline_Always(s) == s \o <<NL>>

\* content, followed by a newline unless it ends with one
WithFinalNewline(s) == IF ends_with(s, <<NL>>) THEN s ELSE s \o <<NL>>

RECURSIVE render_inline(_), render_inlines(_)
\* the loop that renders the first inline only
render_inlines_FirstOnly(inl) ==
    IF inl = <<>> THEN <<>> ELSE render_inline(Head(inl))

render_inlines(inl) ==
    IF inl = <<>> THEN <<>>
    ELSE render_inline(Head(inl)) \o render_inlines(Tail(inl))

render_inline(i) ==
    CASE i.kind = "Text" -> i.content
      [] i.kind = "Emphasis" -> <<"_">> \o render_inlines(i.content) \o <<"_">>
      [] i.kind = "Strong" -> <<"*">> \o render_inlines(i.content) \o <<"*">>
      [] i.kind = "Strikethrough" ->
            <<"[", "l", "i", "n", "e", "-", "t", "h", "r", "o", "u", "g", "h",
              "]", "#">> \o render_inlines(i.content) \o <<"#">>
      [] i.kind = "Code" -> <<BQ>> \o i.content \o <<BQ>>
      [] i.kind = "Link" ->
            <<"l", "i", "n", "k", ":">> \o i.url \o <<"[">>
            \o render_inlines(i.content)
            \o (IF is_some(i.title)
                THEN <<",", " ", "t", "i", "t", "l", "e", "=", "\"">>
                     \o i.title[1] \o <<"\"">>
                ELSE <<>>)
            \o <<"]">>
      [] i.kind = "Image" ->
            <<"i", "m", "a", "g", "e", ":", ":">> \o i.url \o <<"[">> \o i.alt
            \o (IF is_some(i.title)
                THEN <<",", " ", "t", "i", "t", "l", "e", "=", "\"">>
                     \o i.title[1] \o <<"\"">>
                ELSE <<>>)
            \o <<"]">>
      [] i.kind = "Math" ->
            <<"s", "t", "e", "m", ":", "[">> \o i.content \o <<"]">>
      [] i.kind = "LineBreak" -> <<" ", "+", NL>>
      [] i.kind = "SoftBreak" -> <<" ">>
      [] OTHER -> <<>>

\* u32: a number of 32 bits, held as its upper and its lower 16 bits
Limb == 2 ^ 16

\* the u32 of a number below 2^31
u32(n) == <<n \div Limb, n % Limb>>

\* u32::MAX
u32_MAX == <<Limb - 1, Limb - 1>>

\* a + i for a u32 a and an index i: the 32 bits of the sum, and whether the
\* sum went beyond them
u32_add(a, i) ==
    LET lo == a[2] + i
        hi == a[1] + (lo \div Limb)
    IN  [overflow |-> hi >= Limb, value |-> <<hi % Limb, lo % Limb>>]

\* format!("{}", n) of a u32
RECURSIVE Decimal_u32(_)
Decimal_u32(v) ==
    IF v[1] = 0 THEN Decimal(v[2])
    ELSE LET t == (v[1] % 10) * Limb + v[2]
         IN  Decimal_u32(<<v[1] \div 10, t \div 10>>)
             \o <<DecimalDigits[(t % 10) + 1]>>

\* let num = start.unwrap_or(1) + i as u32: the label of item number i
\* (from 0) of an Ordered list, as the 32 bits the addition leaves
OrderedNumber(start, i) == u32_add(unwrap_or(start, u32(1)), i).value

RECURSIVE render_block(_), render_blocks_each(_, _), render_items(_, _, _, _),
          render_cells(_, _, _), render_rows(_)

\* every block of bs rendered, each followed by the text after
render_blocks_each(bs, after) ==
    IF bs = <<>> THEN <<>>
    ELSE render_block(Head(bs)) \o after \o render_blocks_each(Tail(bs), after)

\* the items of a List from item number i on
render_items(list_kind, items, start, i) ==
    IF i >= Len(items) THEN <<>>
    ELSE LET item == items[i + 1]
             marker ==
                 CASE list_kind = "Bullet" -> <<"*", " ">>
                   [] list_kind = "Ordered" ->
                         Decimal_u32(OrderedNumber(start, i))
                         \o <<".", " ">>
                   [] list_kind = "Task" ->
                         IF unwrap_or(item.checked, FALSE)
                         THEN <<"*", " ", "[", "x", "]", " ">>
                         ELSE <<"*", " ", "[", " ", "]", " ">>
         IN  marker \o render_blocks_each(item.content, <<>>) \o <<NL>>
             \o render_items(list_kind, items, start, i + 1)

\* the cells of one table row, each "| " + blocks + after
render_cells(cells, after, i) ==
    IF i > Len(cells) THEN <<>>
    ELSE <<"|", " ">> \o render_blocks_each(cells[i].content, <<>>) \o after
         \o render_cells(cells, after, i + 1)

render_rows(rows) ==
    IF rows = <<>> THEN <<>>
    ELSE render_cells(Head(rows).cells, <<NL>>, 1) \o <<NL>>
         \o render_rows(Tail(rows))

render_block(b) ==
    CASE b.kind = "Paragraph" -> render_inlines(b.content)
      [] b.kind = "Heading" ->
            Repeat("=", b.level) \o <<" ">>
            \o (IF is_some(b.id)
                THEN <<"[", "[">> \o b.id[1] \o <<"]", "]", " ">>
                ELSE <<>>)
            \o render_inlines(b.content)
      [] b.kind = "CodeBlock" ->
            (IF is_some(b.language)
             THEN <<"[", "s", "o", "u", "r", "c", "e", ",">> \o b.language[1]
                  \o <<"]", NL>>
             ELSE <<>>)
            \o <<"-", "-", "-", "-", NL>> \o WithFinalNewline(b.content)
            \o <<"-", "-", "-", "-">>
      [] b.kind = "BlockQuote" ->
            <<"[", "q", "u", "o", "t", "e">>
            \o (IF is_some(b.attribution)
                THEN <<",", " ">> \o render_inlines(b.attribution[1])
                ELSE <<>>)
            \o <<"]", NL, "_", "_", "_", "_", NL>>
            \o render_blocks_each(b.content, <<NL>>)
            \o <<"_", "_", "_", "_">>
      [] b.kind = "List" -> render_items(b.list_kind, b.items, b.start, 0)
      [] b.kind = "ThematicBreak" -> <<"'", "'", "'">>
      [] b.kind = "Raw" ->
            <<"+", "+", "+", "+", NL>> \o WithFinalNewline(b.content)
            \o <<"+", "+", "+", "+">>
      [] b.kind = "Container" ->
            IF \E k \in 1..Len(b.classes) : b.classes[k] = "sidebar"
            THEN <<"*", "*", "*", "*", NL>>
                 \o render_blocks_each(b.content, <<NL>>)
                 \o <<"*", "*", "*", "*">>
            ELSE render_blocks_each(b.content, <<NL>>)
      [] b.kind = "Table" ->
            <<"|", "=", "=", "=", NL>>
            \o (IF is_some(b.header)
                THEN render_cells(b.header[1].cells, <<" ">>, 1) \o <<NL, NL>>
                ELSE <<>>)
            \o render_rows(b.body)
            \o <<"|", "=", "=", "=">>
            \o (IF is_some(b.caption)
                THEN <<NL, ".">> \o render_inlines(b.caption[1])
                ELSE <<>>)
      [] b.kind = "MathBlock" ->
            <<"[", "s", "t", "e", "m", "]", NL, "+", "+", "+", "+", NL>>
            \o WithFinalNewline(b.content) \o <<"+", "+", "+", "+">>
      [] OTHER -> <<>>

\* rendering b reaches an addition `start.unwrap_or(1) + i as u32` whose sum
\* is beyond 32 bits
RECURSIVE AddOverflows(_)
AddOverflows(b) ==
    CASE b.kind = "List" ->
            \/ /\ b.list_kind = "Ordered"
               /\ \E i \in 0..(Len(b.items) - 1) :
                      u32_add(unwrap_or(b.start, u32(1)), i).overflow
            \/ \E k \in 1..Len(b.items) :
                   \E j \in 1..Len(b.items[k].content) :
                       AddOverflows(b.items[k].content[j])
      [] b.kind \in {"BlockQuote", "Container"} ->
            \E k \in 1..Len(b.content) : AddOverflows(b.content[k])
      [] b.kind = "Table" ->
            \E row \in {b.body[k] : k \in 1..Len(b.body)}
                        \cup (IF is_some(b.header) THEN {b.header[1]}
                              ELSE {}) :
                \E c \in 1..Len(row.cells) :
                    \E j \in 1..Len(row.cells[c].content) :
                        AddOverflows(row.cells[c].content[j])
      [] OTHER -> FALSE

\* the build profiles: overflow checks are on in debug builds and off in
\* release builds
Profiles == {"debug", "release"}

\* while output.ends_with('\n') { output.pop(); }
RECURSIVE TrimTrailingNewlines(_)
TrimTrailingNewlines(s) ==
    IF ends_with(s, <<NL>>)
    THEN TrimTrailingNewlines(SubSeq(s, 1, Len(s) - 1))
    ELSE s

\* the renderer that hands back the retained source text when there is one
AsciidocRender_RawSource(doc) ==
    IF is_some(doc.raw_source) THEN Ok(doc.raw_source[1])
    ELSE Ok(TrimTrailingNewlines(
             (IF is_some(doc.meta.title)
              THEN <<"=", " ">> \o doc.meta.title[1] \o <<NL, NL>>
              ELSE <<>>)
             \o render_blocks_each(doc.content, <<NL, NL>>)))

\* the renderer that takes one newline off the end, once
AsciidocRender_PopOnce(doc) ==
    LET output ==
            (IF is_some(doc.meta.title)
             THEN <<"=", " ">> \o doc.meta.title[1] \o <<NL, NL>>
             ELSE <<>>)
            \o render_blocks_each(doc.content, <<NL, NL>>)
    IN  Ok(IF ends_with(output, <<NL>>)
           THEN SubSeq(output, 1, Len(output) - 1)
           ELSE output)

\* AsciidocHandler::render
AsciidocRender(doc) ==
    Ok(TrimTrailingNewlines(
        (IF is_some(doc.meta.title)
         THEN <<"=", " ">> \o doc.meta.title[1] \o <<NL, NL>>
         ELSE <<>>)
        \o render_blocks_each(doc.content, <<NL, NL>>)))

----------------------------------------------------------------------------
(* The tree the asciidoc_parser crate hands to the handler, and the part   *)
(* of its grammar that the texts of this model exercise: a document title  *)
(* line, section titles, and paragraphs separated by blank lines.          *)

AdocSimple(s) == [kind |-> "Simple", content |-> s]
AdocSection(level, title, blocks) ==
    [kind |-> "Section", level |-> level, title |-> title, blocks |-> blocks]
AdocRawDelimited(context, s, language) ==
    [kind |-> "RawDelimited", context |-> context, content |-> s,
     language |-> language]
AdocCompoundDelimited(context, blocks) ==
    [kind |-> "CompoundDelimited", context |-> context, blocks |-> blocks]
AdocPreamble(blocks) == [kind |-> "Preamble", blocks |-> blocks]
AdocBreak == [kind |-> "Break"]
AdocMedia(target, alt) == [kind |-> "Media", target |-> target, alt |-> alt]
AdocDocumentAttribute == [kind |-> "DocumentAttribute"]
AdocDocument(title, blocks) == [title |-> title, blocks |-> blocks]

IsBlankLine(line) == trim(line) = <<>>

\* the number of "=" characters line starts with
RECURSIVE LeadingEquals(_)
LeadingEquals(line) ==
    IF line # <<>> /\ Head(line) = "=" THEN 1 + LeadingEquals(Tail(line)) ELSE 0

\* "= Title": the document title line of the header
IsDocTitleLine(line) ==
    LeadingEquals(line) = 1 /\ Len(line) > 2 /\ line[2] = " "

\* "== Title" .. "====== Title": a section title; "==" is level 1
IsSectionTitleLine(line) ==
    LET n == LeadingEquals(line) IN
    n >= 2 /\ n <= 6 /\ Len(line) > n + 1 /\ line[n + 1] = " "

TitleOf(line) == trim(SubSeq(line, LeadingEquals(line) + 1, Len(line)))

RECURSIVE JoinLines(_)
JoinLines(ls) ==
    IF ls = <<>> THEN <<>>
    ELSE IF Len(ls) = 1 THEN ls[1]
    ELSE ls[1] \o <<NL>> \o JoinLines(Tail(ls))

RECURSIVE SkipBlank(_)
SkipBlank(ls) ==
    IF ls # <<>> /\ IsBlankLine(Head(ls)) THEN SkipBlank(Tail(ls)) ELSE ls

\* the lines of ls up to its first blank line
RECURSIVE TakeChunk(_)
TakeChunk(ls) ==
    IF ls = <<>> \/ IsBlankLine(Head(ls)) THEN <<>>
    ELSE <<Head(ls)>> \o TakeChunk(Tail(ls))

\* the body as a flat sequence of section titles and paragraphs
RECURSIVE BodyItems(_)
BodyItems(ls0) ==
    LET ls == SkipBlank(ls0) IN
    IF ls = <<>> THEN <<>>
    ELSE IF IsSectionTitleLine(Head(ls))
    THEN <<[kind |-> "SectionTitle", level |-> LeadingEquals(Head(ls)) - 1,
            title |-> TitleOf(Head(ls))]>> \o BodyItems(Tail(ls))
    ELSE LET chunk == TakeChunk(ls) IN
         <<AdocSimple(JoinLines(chunk))>>
         \o BodyItems(SubSeq(ls, Len(chunk) + 1, Len(ls)))

\* a section holds the items that follow its title, up to the next title of
\* the same or an outer level
RECURSIVE NestSections(_, _)
NestSections(items, parentLevel) ==
    IF items = <<>> THEN [blocks |-> <<>>, rest |-> <<>>]
    ELSE LET it == Head(items) IN
         IF it.kind = "SectionTitle"
         THEN IF it.level <= parentLevel
              THEN [blocks |-> <<>>, rest |-> items]
              ELSE LET inner == NestSections(Tail(items), it.level)
                       after == NestSections(inner.rest, parentLevel)
                   IN  [blocks |-> <<AdocSection(it.level, it.title,
                                                 inner.blocks)>>
                                   \o after.blocks,
                        rest |-> after.rest]
         ELSE LET after == NestSections(Tail(items), parentLevel) IN
              [blocks |-> <<it>> \o after.blocks, rest |-> after.rest]

\* the number of blocks at the head of bs that are not sections
RECURSIVE LeadingNonSections(_)
LeadingNonSections(bs) ==
    IF bs = <<>> \/ Head(bs).kind = "Section" THEN 0
    ELSE 1 + LeadingNonSections(Tail(bs))

\* asciidoc_parser::Parser::parse: the header title, then the body blocks;
\* in a document with a title, the blocks before its first section are
\* wrapped in a Preamble block
AdocParse(input) ==
    LET ls == SkipBlank(lines(input))
        hasTitle == ls # <<>> /\ IsDocTitleLine(Head(ls))
        header == IF hasTitle THEN TakeChunk(ls) ELSE <<>>
        body == SubSeq(ls, Len(header) + 1, Len(ls))
        blocks == NestSections(BodyItems(body), 0).blocks
        k == LeadingNonSections(blocks)
    IN  AdocDocument(
            IF hasTitle THEN Some(TitleOf(Head(ls))) ELSE None,
            IF hasTitle /\ k > 0 /\ k < Len(blocks)
            THEN <<AdocPreamble(SubSeq(blocks, 1, k))>>
                 \o SubSeq(blocks, k + 1, Len(blocks))
            ELSE blocks)

----------------------------------------------------------------------------
(* formats/asciidoc.rs: the parser                                         *)

\* Content::rendered: the text after the special-character substitution
RECURSIVE rendered_text(_)
rendered_text(s) ==
    IF s = <<>> THEN <<>>
    ELSE (CASE Head(s) = "<" -> <<"&", "l", "t", ";">>
            [] Head(s) = ">" -> <<"&", "g", "t", ";">>
            [] Head(s) = "&" -> <<"&", "a", "m", "p", ";">>
            [] OTHER -> <<Head(s)>>) \o rendered_text(Tail(s))

parse_inline_content(text) == <<Text(text)>>

\* the conversion to a level counted from zero
as_u8_ZeroBased(n) == (n + 255) % 256

\* usize as u8
as_u8(n) == n % 256

RECURSIVE convert_block(_), convert_children(_)

\* for child in nested_blocks() { if let Some(c) = convert_block(child) {
\* inner_blocks.push(c) } }
convert_children(bs) ==
    IF bs = <<>> THEN <<>>
    ELSE convert_block(Head(bs)) \o convert_children(Tail(bs))

\* convert_block: Some(block) or None, as a sequence of 0 or 1 blocks
convert_block(b) ==
    CASE b.kind = "Simple" ->
            Some(Paragraph(parse_inline_content(rendered_text(b.content))))
      [] b.kind = "Section" ->
            Some(Heading(as_u8(b.level), <<Text(b.title)>>, None))
      [] b.kind = "RawDelimited" ->
            (CASE b.context \in {"listing", "source"} ->
                    Some(CodeBlock(b.language, rendered_text(b.content)))
               [] b.context = "literal" ->
                    Some(Raw("AsciiDoc", rendered_text(b.content)))
               [] b.context \in {"pass", "passthrough"} ->
                    Some(Raw("AsciiDoc", rendered_text(b.content)))
               [] OTHER -> None)
      [] b.kind = "CompoundDelimited" ->
            (CASE b.context \in {"quote", "verse"} ->
                    Some(BlockQuote(convert_children(b.blocks), None))
               [] b.context = "sidebar" ->
                    Some(Container(<<"sidebar">>, convert_children(b.blocks)))
               [] OTHER ->
                    LET inner_blocks == convert_children(b.blocks) IN
                    IF inner_blocks # <<>> THEN Some(inner_blocks[1])
                    ELSE None)
      [] b.kind = "Preamble" ->
            LET inner_blocks == convert_children(b.blocks) IN
            IF inner_blocks # <<>> THEN Some(inner_blocks[1]) ELSE None
      [] b.kind = "Break" -> Some(ThematicBreak)
      [] b.kind = "Media" ->
            Some(Paragraph(<<Image(unwrap_or(b.target, <<>>),
                                   unwrap_or(b.alt, <<>>), None)>>))
      [] b.kind = "DocumentAttribute" -> None
      [] OTHER -> None

\* the conversion that hands the blocks back last first
convert_blocks_Reversed(adoc_doc) ==
    LET bs == convert_children(adoc_doc.blocks) IN
    [k \in 1..Len(bs) |-> bs[Len(bs) + 1 - k]]

\* convert_blocks
convert_blocks(adoc_doc) == convert_children(adoc_doc.blocks)

\* the parser keeping the raw source whatever the configuration says
AsciidocParse_AlwaysRaw(input, config) ==
    LET adoc_doc == AdocParse(input) IN
    Ok(Document("AsciiDoc", adoc_doc.title, convert_blocks(adoc_doc),
                Some(input)))

\* AsciidocHandler::parse
AsciidocParse(input, config) ==
    LET adoc_doc == AdocParse(input) IN
    Ok(Document("AsciiDoc", adoc_doc.title, convert_blocks(adoc_doc),
                IF config.preserve_raw_source THEN Some(input) ELSE None))

----------------------------------------------------------------------------
(* The AsciiDoc handler at work: a Document is rendered and the text is    *)
(* parsed again, or a sample text is parsed                                *)

MaxBlocks == 3

DocTitles == { None, Some(<<"T">>) }

BlockPool ==
    { Paragraph(<<Text(<<"p">>)>>),
      Paragraph(<<Text(<<"q">>)>>),
      Heading(1, <<Text(<<"h">>)>>, None),
      Heading(2, <<Text(<<"h">>)>>, None),
      Heading(3, <<Text(<<"k">>)>>, None) }

SampleInputs ==
    { <<>>,
      <<"h", "i">>,
      <<"=", " ", "T", NL, NL, "p">>,
      <<"=", "=", " ", "s", NL, NL, "p", NL, NL, "q">>,
      <<"p", "<", "q">>,
      <<NL>>,
      <<" ", NL, NL>>,
      <<"=", " ", "T">>,
      <<"=", "=", "=", "=", "=", "=", " ", "d">>,
      <<"=", "=", "=", "=", "=", "=", "=", " ", "x">> }

ParseConfigs == { [preserve_raw_source |-> b] : b \in BOOLEAN }

InitAdoc ==
    /\ pc = "start"
    /\ ContentIdle /\ ExtIdle /\ FileIdle /\ FfiIdle
    /\ ConvIdle /\ FeatureIdle
    /\ HeapIdle
    /\ \E t \in DocTitles, n \in 0..MaxBlocks :
          \E bs \in [1..n -> BlockPool] :
              srcDoc = Document("AsciiDoc", t, bs, None)
    /\ parseConfig \in ParseConfigs
    /\ rendered = None
    /\ parseInput = <<>>
    /\ parsed = None

\* handler.render(&srcDoc, &RenderConfig::default())
Render ==
    /\ pc = "start"
    /\ \E profile \in Profiles :
           IF /\ profile = "debug"
              /\ \E k \in 1..Len(srcDoc.content) :
                     AddOverflows(srcDoc.content[k])
           THEN \* panic: attempt to add with overflow
                /\ rendered' = None
                /\ pc' = "panicked"
           ELSE LET r == AsciidocRender(srcDoc) IN
                /\ r.ok
                /\ rendered' = Some(r.value)
                /\ pc' = "rendered"
    /\ UNCHANGED <<srcDoc, parseConfig, parseInput, parsed, contentVars,
                   extVars, fileVars, ffiVars, convVars, featureVars,
                   heapVars>>

\* handler.parse(text, &parseConfig) on the text render returned
ParseRendered ==
    /\ pc = "rendered"
    /\ parseInput' = rendered[1]
    /\ LET r == AsciidocParse(rendered[1], parseConfig) IN
       /\ r.ok
       /\ parsed' = Some(r.value)
    /\ pc' = "reparsed"
    /\ UNCHANGED <<srcDoc, parseConfig, rendered, contentVars, extVars,
                   fileVars, ffiVars, convVars, featureVars,
                   heapVars>>

\* handler.parse(text, &parseConfig) on a sample text
ParseSample ==
    /\ pc = "start"
    /\ \E t \in SampleInputs :
          /\ parseInput' = t
          /\ LET r == AsciidocParse(t, parseConfig) IN
             /\ r.ok
             /\ parsed' = Some(r.value)
    /\ pc' = "parsed"
    /\ UNCHANGED <<srcDoc, parseConfig, rendered, contentVars, extVars,
                   fileVars, ffiVars, convVars, featureVars,
                   heapVars>>

NextAdoc == Render \/ ParseRendered \/ ParseSample

SpecAdoc == InitAdoc /\ [][NextAdoc]_vars

----------------------------------------------------------------------------
(* Claims about the AsciiDoc handler                                       *)

\* C8: parse returns raw_source = Some(input) when preserve_raw_source is
\* set and None when it is not, and the option changes nothing else of the
\* Document.
C8_RawSourceFollowsConfig ==
    pc \in {"parsed", "reparsed"} =>
        LET d == parsed[1]
            other == AsciidocParse(parseInput,
                         [preserve_raw_source |->
                              ~parseConfig.preserve_raw_source]).value
        IN  /\ d.raw_source = IF parseConfig.preserve_raw_source
                              THEN Some(parseInput) ELSE None
            /\ other.raw_source # d.raw_source
            /\ other.source_format = d.source_format
            /\ other.meta = d.meta
            /\ other.content = d.content

\* a non-empty text was parsed with preserve_raw_source set
C8_Witness ==
    /\ pc \in {"parsed", "reparsed"}
    /\ parseConfig.preserve_raw_source
    /\ parseInput # <<>>
    /\ parsed[1].raw_source = Some(parseInput)
    /\ parsed[1].content # <<>>

\* the kinds of a sequence of blocks, in order
Kinds(bs) == [i \in 1..Len(bs) |-> bs[i].kind]

\* C9: a Document of Headings and Paragraphs, rendered as AsciiDoc and
\* parsed again, has the same number of top-level blocks, of the same kinds
\* in the same order.
C9_RoundTripKeepsBlockKinds ==
    pc = "reparsed" => Kinds(parsed[1].content) = Kinds(srcDoc.content)

\* C13: parse never returns a silent empty document for non-empty input:
\* whenever it returns Ok with empty content, the input is empty.
C13_NoSilentEmptyDocument ==
    (pc \in {"parsed", "reparsed"} /\ parsed[1].content = <<>>) =>
        parseInput = <<>>

----------------------------------------------------------------------------
(* The handlers of the six other formats. Their modules are not part of    *)
(* the sources at hand: they are modelled from the Parser and Renderer     *)
(* contracts of the specification. A handler returns Ok or one of the      *)
(* ConversionError variants; which one is the caller's nondeterministic    *)
(* choice "outcome".                                                       *)

HandlerOutcomes ==
    {"ok", "ParseError", "IoError", "UnsupportedFeature", "SerializationError"}

\* the text of the inlines of a Paragraph or Heading, nothing for others
BlockText(b) ==
    IF b.kind \in {"Paragraph", "Heading"} THEN render_inlines(b.content)
    ELSE <<>>

RECURSIVE BlocksText(_)
BlocksText(bs) ==
    IF bs = <<>> THEN <<>>
    ELSE BlockText(Head(bs)) \o <<NL, NL>> \o BlocksText(Tail(bs))

\* Parser::parse of a format other than AsciiDoc
GenericParse(format, input, config, outcome) ==
    IF outcome # "ok" THEN Err(outcome)
    ELSE Ok(Document(format, None,
                     IF trim(input) = <<>> THEN <<>>
                     ELSE <<Paragraph(<<Text(trim(input))>>)>>,
                     IF config.preserve_raw_source THEN Some(input)
                     ELSE None))

\* Renderer::render of a format other than AsciiDoc; it does not fail on a
\* Document with empty content
GenericRender(format, doc, outcome) ==
    IF outcome # "ok" /\ doc.content # <<>> THEN Err(outcome)
    ELSE Ok(TrimTrailingNewlines(
                (IF is_some(doc.meta.title)
                 THEN doc.meta.title[1] \o <<NL, NL>> ELSE <<>>)
                \o BlocksText(doc.content)))

----------------------------------------------------------------------------
(* file_ops.rs: opening, saving and converting files                       *)

\* impl From<ConversionError> for FileError
FileErrorFrom(err) ==
    CASE err = "ParseError" -> "Parse"
      [] err = "IoError" -> "Io"
      [] err = "UnsupportedFeature" -> "UnsupportedFormat"
      [] err = "SerializationError" -> "Render"

\* one stage of a call: its name, the format it works with, its success
Stage(name, format, ok) == <<name, format, ok>>

\* fs::read_to_string
read_to_string(files, p) ==
    IF p \in DOMAIN files /\ is_some(files[p]) THEN Ok(files[p][1].data)
    ELSE Err("Io")

\* fs::write: fails when the directory does not exist or the file is
\* read-only; a new file is writable
fs_write(files, p, data) ==
    IF p \notin DOMAIN files THEN [res |-> Err("Io"), files |-> files]
    ELSE IF is_some(files[p]) /\ files[p][1].readonly
    THEN [res |-> Err("Io"), files |-> files]
    ELSE [res |-> Ok("unit"),
          files |-> [files EXCEPT
                        ![p] = Some([data |-> data, readonly |-> FALSE])]]

\* a Rust `let`: the value is computed once, then the rest works with it
Let(v, In(_)) == CHOOSE r \in { In(x) : x \in {v} } : TRUE

\* parse_content
parse_content(text, format, config, outcome) ==
    Let(IF format = "AsciiDoc" THEN AsciidocParse(text, config)
        ELSE GenericParse(format, text, config, outcome),
        LAMBDA r : IF r.ok THEN r ELSE Err(FileErrorFrom(r.error)))

\* render_content
render_content(doc, format, config, outcome) ==
    Let(IF format = "AsciiDoc" THEN AsciidocRender(doc)
        ELSE GenericRender(format, doc, outcome),
        LAMBDA r : IF r.ok THEN r ELSE Err(FileErrorFrom(r.error)))

\* the OpenedDocument
OpenedDocument(document, p, format, size, read_only) ==
    [document |-> document,
     file_info |-> [path |-> p, format |-> format, size |-> size,
                    read_only |-> read_only]]

\* the open that asks the content first and the extension only when the
\* content looks like plain text
open_file_with_config_ContentFirst(files, p, config, outcome) ==
    Let(read_to_string(files, p), LAMBDA rd :
    IF ~rd.ok THEN [res |-> rd, log |-> <<Stage("read", "-", FALSE)>>]
    ELSE
    Let(format_from_content(rd.value), LAMBDA byContent :
    Let(format_from_extension(p), LAMBDA ext :
    Let(IF byContent # "PlainText" THEN byContent
        ELSE unwrap_or(ext, byContent), LAMBDA format :
    Let(parse_content(rd.value, format, config, outcome), LAMBDA pr :
    Let(<<Stage("read", "-", TRUE), Stage("metadata", "-", TRUE),
          Stage("format_from_content", byContent, TRUE),
          Stage("format_from_extension", "-", is_some(ext)),
          Stage("parse", format, pr.ok)>>, LAMBDA log :
    IF ~pr.ok THEN [res |-> pr, log |-> log]
    ELSE [res |-> Ok(OpenedDocument(pr.value, p, format, Len(rd.value),
                                    files[p][1].readonly)),
          log |-> log]))))))

\* open_file_with_config: the result and the stages gone through
open_file_with_config(files, p, config, outcome) ==
    Let(read_to_string(files, p), LAMBDA rd :
    IF ~rd.ok THEN [res |-> rd, log |-> <<Stage("read", "-", FALSE)>>]
    ELSE
    Let(format_from_extension(p), LAMBDA ext :
    Let(IF is_some(ext) THEN ext[1] ELSE format_from_content(rd.value),
        LAMBDA format :
    Let(parse_content(rd.value, format, config, outcome), LAMBDA pr :
    Let(<<Stage("read", "-", TRUE), Stage("metadata", "-", TRUE),
          Stage("format_from_extension", "-", is_some(ext))>>
        \o (IF is_some(ext) THEN <<>>
            ELSE <<Stage("format_from_content", format, TRUE)>>)
        \o <<Stage("parse", format, pr.ok)>>, LAMBDA log :
    IF ~pr.ok THEN [res |-> pr, log |-> log]
    ELSE [res |-> Ok(OpenedDocument(pr.value, p, format, Len(rd.value),
                                    files[p][1].readonly)),
          log |-> log])))))

\* the save that creates the output file before it renders
save_file_as_CreateFirst(files, doc, p, format, config, outcome) ==
    Let(fs_write(files, p, <<>>), LAMBDA cr :
    Let(render_content(doc, format, config, outcome), LAMBDA rr :
    IF ~cr.res.ok
    THEN [res |-> cr.res, files |-> files,
          log |-> <<Stage("write", format, FALSE)>>]
    ELSE IF ~rr.ok
    THEN [res |-> rr, files |-> cr.files,
          log |-> <<Stage("write", format, TRUE),
                    Stage("render", format, FALSE)>>]
    ELSE Let(fs_write(cr.files, p, rr.value), LAMBDA wr :
         [res |-> wr.res, files |-> wr.files,
          log |-> <<Stage("write", format, TRUE),
                    Stage("render", format, TRUE)>>])))

\* save_file_as: the result, the file system after it, the stages
save_file_as(files, doc, p, format, config, outcome) ==
    Let(render_content(doc, format, config, outcome), LAMBDA rr :
    IF ~rr.ok
    THEN [res |-> rr, files |-> files,
          log |-> <<Stage("render", format, FALSE)>>]
    ELSE Let(fs_write(files, p, rr.value), LAMBDA wr :
         [res |-> wr.res, files |-> wr.files,
          log |-> <<Stage("render", format, TRUE),
                    Stage("write", format, wr.res.ok)>>]))

\* the save that gives up when the extension names no format
save_file_with_config_NoFallback(files, doc, p, config, outcome) ==
    Let(format_from_extension(p), LAMBDA ext :
    IF ext = None
    THEN [res |-> Err("UnknownFormat"), files |-> files, log |-> <<>>]
    ELSE save_file_as(files, doc, p, ext[1], config, outcome))

\* save_file_with_config
save_file_with_config(files, doc, p, config, outcome) ==
    Let(unwrap_or(format_from_extension(p), doc.source_format),
        LAMBDA format : save_file_as(files, doc, p, format, config, outcome))

\* RenderConfig::default()
RenderConfig_default == [default |-> TRUE]

\* save_file
save_file(files, doc, p, outcome) ==
    save_file_with_config(files, doc, p, RenderConfig_default, outcome)

\* convert_file_with_config
convert_file_with_config(files, input_path, output_path, parse_config, render_config, parseOutcome, renderOutcome) ==
    Let(open_file_with_config(files, input_path, parse_config, parseOutcome),
        LAMBDA op :
    IF ~op.res.ok
    THEN [res |-> op.res, files |-> files, log |-> op.log]
    ELSE Let(save_file_with_config(files, op.res.value.document,
                                   output_path, render_config,
                                   renderOutcome), LAMBDA sv :
         [res |-> sv.res, files |-> sv.files, log |-> op.log \o sv.log]))


----------------------------------------------------------------------------
(* The file pipeline at work on a small file system: a file is opened  *)
(* and the document saved, or a file is converted                          *)

PathMd == <<"a", ".", "m", "d">>
PathAdoc == <<"b", ".", "a", "d", "o", "c">>
PathNoExt == <<"c">>
\* a path in a directory that does not exist
PathNoDir == <<"x", "/", "o", ".", "o", "r", "g">>

FilePaths == { PathMd, PathAdoc, PathNoExt }

File(data, readonly) == Some([data |-> data, readonly |-> readonly])

RenderConfigs == { [default |-> TRUE] }

\* the FileResult as a word: Ok, or the variant of the FileError
ResultWord(res) == IF res.ok THEN "Ok" ELSE res.error

InitFile ==
    /\ pc = "start"
    /\ ContentIdle /\ ExtIdle /\ AdocIdle /\ FfiIdle
    /\ ConvIdle /\ FeatureIdle
    /\ HeapIdle
    /\ \E a \in {None, File(<<"=", " ", "T">>, FALSE), File(<<"#", " ", "h">>, FALSE)},
          b \in {None, File(<<"p">>, FALSE), File(<<"=", "=", " ", "s", NL, NL, "p">>, TRUE)},
          c \in {None, File(<<"=", " ", "T">>, FALSE), File(<<"p">>, FALSE)} :
           fs = (PathMd :> a) @@ (PathAdoc :> b) @@ (PathNoExt :> c)
    /\ opened = None
    /\ fileResult = [op |-> "none"]
    /\ steps = <<>>

\* open_file_with_config(p, config)
CallOpenFile(p, cfg, outcome) ==
    /\ pc = "start"
    /\ \E r \in {open_file_with_config(fs, p, cfg, outcome)} :
       /\ opened' = IF r.res.ok THEN Some(r.res.value) ELSE None
       /\ fileResult' = [op |-> "open_file_with_config", in |-> p,
                         out |-> <<>>, res |-> ResultWord(r.res)]
       /\ steps' = r.log
       /\ pc' = IF r.res.ok THEN "opened" ELSE "done"
    /\ UNCHANGED <<fs, contentVars, extVars, adocVars, ffiVars,
                   convVars, featureVars,
                   heapVars>>

\* save_file_with_config(&opened.document, p, config)
CallSaveFile(p, cfg, outcome) ==
    /\ pc = "opened"
    /\ \E r \in {save_file_with_config(fs, opened[1].document, p, cfg,
                                      outcome)} :
           /\ fs' = r.files
           /\ fileResult' = [op |-> "save_file_with_config", in |-> <<>>,
                             out |-> p, res |-> ResultWord(r.res)]
           /\ steps' = r.log
    /\ pc' = "done"
    /\ UNCHANGED <<opened, contentVars, extVars, adocVars, ffiVars,
                   convVars, featureVars,
                   heapVars>>

\* save_file_as(&opened.document, p, format, config)
CallSaveFileAs(p, format, cfg, outcome) ==
    /\ pc = "opened"
    /\ \E r \in {save_file_as(fs, opened[1].document, p, format, cfg,
                             outcome)} :
           /\ fs' = r.files
           /\ fileResult' = [op |-> "save_file_as", in |-> <<>>,
                             out |-> p, res |-> ResultWord(r.res)]
           /\ steps' = r.log
    /\ pc' = "done"
    /\ UNCHANGED <<opened, contentVars, extVars, adocVars, ffiVars,
                   convVars, featureVars,
                   heapVars>>

\* convert_file_with_config(input_path, output_path, parse_config,
\* render_config)
CallConvertFile(input_path, output_path, pcfg, rcfg, po, ro) ==
    /\ pc = "start"
    /\ \E r \in {convert_file_with_config(fs, input_path, output_path,
                                         pcfg, rcfg, po, ro)} :
           /\ fs' = r.files
           /\ fileResult' = [op |-> "convert_file_with_config",
                             in |-> input_path, out |-> output_path,
                             res |-> ResultWord(r.res)]
           /\ steps' = r.log
    /\ pc' = "done"
    /\ UNCHANGED <<opened, contentVars, extVars, adocVars, ffiVars,
                   convVars, featureVars,
                   heapVars>>

NextFile ==
    \/ \E p \in FilePaths \cup {PathNoDir}, cfg \in ParseConfigs,
          o \in HandlerOutcomes : CallOpenFile(p, cfg, o)
    \/ \E p \in FilePaths \cup {PathNoDir}, cfg \in RenderConfigs,
          o \in HandlerOutcomes : CallSaveFile(p, cfg, o)
    \/ \E p \in FilePaths \cup {PathNoDir}, f \in SourceFormat,
          cfg \in RenderConfigs, o \in HandlerOutcomes :
           CallSaveFileAs(p, f, cfg, o)
    \/ \E i \in FilePaths \cup {PathNoDir}, o \in FilePaths \cup {PathNoDir},
          pcfg \in ParseConfigs, rcfg \in RenderConfigs,
          po \in HandlerOutcomes, ro \in HandlerOutcomes :
           CallConvertFile(i, o, pcfg, rcfg, po, ro)

SpecFile == InitFile /\ [][NextFile]_vars

----------------------------------------------------------------------------
(* Claims about the file pipeline                                          *)

HasStage(log, name) == \E i \in 1..Len(log) : log[i][1] = name

StageOk(log, name) == \E i \in 1..Len(log) : log[i][1] = name /\ log[i][3]

\* the format the stage called name worked with
StageFormat(log, name) ==
    log[CHOOSE i \in 1..Len(log) : log[i][1] = name][2]

\* C6: open_file_with_config parses with the format of the extension
\* whenever the extension is known, whatever the content; it consults
\* format_from_content only when the extension lookup returns None; and
\* file_info.format reports the format that was used for parsing.
C6_ExtensionBeforeContent ==
    (fileResult.op = "open_file_with_config" /\ HasStage(steps, "parse")) =>
        LET p == fileResult.in
            ext == format_from_extension(p)
            used == StageFormat(steps, "parse")
        IN  /\ is_some(ext) =>
                 /\ used = ext[1]
                 /\ ~HasStage(steps, "format_from_content")
            /\ ext = None =>
                 /\ used = format_from_content(fs[p][1].data)
                 /\ HasStage(steps, "format_from_content")
            /\ is_some(opened) => opened[1].file_info.format = used

\* a file named *.md whose content looks like AsciiDoc was opened as
\* Markdown
C6_Witness ==
    /\ fileResult.op = "open_file_with_config"
    /\ fileResult.res = "Ok"
    /\ fileResult.in = PathMd
    /\ format_from_content(fs[PathMd][1].data) = "AsciiDoc"
    /\ opened[1].file_info.format = "Markdown"

\* the read, parse, render and write stages of log, in the order they ran
Pipeline(log) ==
    LET IsPipelineStage(e) == e[1] \in {"read", "parse", "render", "write"}
    IN  SelectSeq(log, IsPipelineStage)

PipelineStages(log) == [i \in 1..Len(Pipeline(log)) |-> Pipeline(log)[i][1]]

IsPrefix(a, b) == Len(a) <= Len(b) /\ SubSeq(b, 1, Len(a)) = a

\* every pipeline stage of log but the last succeeded
OnlyLastMayFail(log) ==
    \A i \in 1..(Len(Pipeline(log)) - 1) : Pipeline(log)[i][3]

\* C7: in convert_file_with_config and save_file_as (also reached through
\* save_file_with_config) the stages run in the order read, parse, render,
\* write and stop at the first failure, whose error is returned; the file
\* system changes only in a call whose render stage succeeded (and, in a
\* conversion, whose read and parse stages succeeded).
C7_WriteOnlyAfterRender ==
    [][ (pc # "done" /\ pc' = "done"
         /\ fileResult'.op \in {"convert_file_with_config", "save_file_as",
                                "save_file_with_config"}) =>
           LET log == steps'
               conv == fileResult'.op = "convert_file_with_config"
           IN  /\ IsPrefix(PipelineStages(log),
                           IF conv THEN <<"read", "parse", "render", "write">>
                           ELSE <<"render", "write">>)
               /\ OnlyLastMayFail(log)
               /\ (fileResult'.res = "Ok") <=> log[Len(log)][3]
               /\ (fs' # fs \/ HasStage(log, "write")) =>
                     /\ StageOk(log, "render")
                     /\ conv => StageOk(log, "read") /\ StageOk(log, "parse")
               /\ ~StageOk(log, "render") => fs' = fs
      ]_vars

\* a conversion whose render stage failed left the output path absent
C7_Witness ==
    /\ fileResult.op = "convert_file_with_config"
    /\ fileResult.res = "Render"
    /\ StageOk(steps, "parse")
    /\ HasStage(steps, "render")
    /\ ~HasStage(steps, "write")
    /\ fileResult.out \in DOMAIN fs
    /\ fs[fileResult.out] = None

----------------------------------------------------------------------------
(* ffi.rs: the C interface                                                 *)

\* the character U+0000, which a C string cannot hold
NUL == "nul"
\* a byte that is not valid UTF-8
BadByte == "0xFF"

\* enum FfiFormat
FfiFormat == 0..6

\* impl From<FfiFormat> for SourceFormat
SourceFormat_from(f) ==
    CASE f = 0 -> "PlainText"
      [] f = 1 -> "Markdown"
      [] f = 2 -> "AsciiDoc"
      [] f = 3 -> "Djot"
      [] f = 4 -> "OrgMode"
      [] f = 5 -> "ReStructuredText"
      [] f = 6 -> "Typst"

\* impl From<SourceFormat> for FfiFormat
FfiFormat_from(f) ==
    CASE f = "PlainText" -> 0
      [] f = "Markdown" -> 1
      [] f = "AsciiDoc" -> 2
      [] f = "Djot" -> 3
      [] f = "OrgMode" -> 4
      [] f = "ReStructuredText" -> 5
      [] f = "Typst" -> 6

\* CStr::to_str
CStr_to_str(bytes) ==
    IF \E i \in 1..Len(bytes) : bytes[i] = BadByte THEN Err("Utf8Error")
    ELSE Ok(bytes)

\* CString::new: fails on an interior NUL
CString_new(s) ==
    IF \E i \in 1..Len(s) : s[i] = NUL THEN Err("NulError") ELSE Ok(s)

\* ParseConfig::default()
ParseConfig_default == [preserve_raw_source |-> FALSE]

\* formatrix_parse: content is None for a null pointer
formatrix_parse(c, format, out_handle_null, outcome) ==
    IF c = None \/ out_handle_null
    THEN [ret |-> "NullPointer", doc |-> None]
    ELSE
    Let(CStr_to_str(c[1]), LAMBDA content_str :
    IF ~content_str.ok THEN [ret |-> "Utf8Error", doc |-> None]
    ELSE
    Let(SourceFormat_from(format), LAMBDA source_format :
    Let(IF source_format = "AsciiDoc"
        THEN AsciidocParse(content_str.value, ParseConfig_default)
        ELSE GenericParse(source_format, content_str.value,
                          ParseConfig_default, outcome), LAMBDA r :
    IF r.ok THEN [ret |-> "Success", doc |-> Some(r.value)]
    ELSE [ret |-> "ParseError", doc |-> None])))

\* the render that hands the text over without looking for a NUL
formatrix_render_Unchecked(h, format, out_content_null, out_length_null, outcome) ==
    IF h = None \/ out_content_null \/ out_length_null
    THEN [ret |-> "NullPointer", out_content |-> None, out_length |-> None]
    ELSE
    Let(SourceFormat_from(format), LAMBDA target_format :
    Let(IF target_format = "AsciiDoc" THEN AsciidocRender(h[1])
        ELSE GenericRender(target_format, h[1], outcome), LAMBDA r :
    IF ~r.ok
    THEN [ret |-> "RenderError", out_content |-> None, out_length |-> None]
    ELSE [ret |-> "Success", out_content |-> Some(r.value),
          out_length |-> Some(Len(r.value))]))

\* formatrix_render: h is None for a null handle
formatrix_render(h, format, out_content_null, out_length_null, outcome) ==
    IF h = None \/ out_content_null \/ out_length_null
    THEN [ret |-> "NullPointer", out_content |-> None, out_length |-> None]
    ELSE
    Let(SourceFormat_from(format), LAMBDA target_format :
    Let(IF target_format = "AsciiDoc" THEN AsciidocRender(h[1])
        ELSE GenericRender(target_format, h[1], outcome), LAMBDA r :
    IF ~r.ok
    THEN [ret |-> "RenderError", out_content |-> None, out_length |-> None]
    ELSE IF ~CString_new(r.value).ok
    THEN [ret |-> "InvalidInput", out_content |-> None, out_length |-> None]
    ELSE [ret |-> "Success", out_content |-> Some(r.value),
          out_length |-> Some(Len(r.value))]))

\* formatrix_open_file: p is None for a null pointer
formatrix_open_file(files, p, out_handle_null, out_format_null, outcome) ==
    IF p = None \/ out_handle_null \/ out_format_null
    THEN [ret |-> "NullPointer", doc |-> None, out_format |-> None]
    ELSE
    Let(CStr_to_str(p[1]), LAMBDA path_str :
    IF ~path_str.ok
    THEN [ret |-> "Utf8Error", doc |-> None, out_format |-> None]
    ELSE
    Let(open_file_with_config(files, path_str.value, ParseConfig_default,
                              outcome).res, LAMBDA r :
    IF r.ok
    THEN [ret |-> "Success", doc |-> Some(r.value.document),
          out_format |-> Some(FfiFormat_from(r.value.file_info.format))]
    ELSE [ret |-> CASE r.error = "Io" -> "InvalidInput"
                    [] r.error = "Parse" -> "ParseError"
                    [] r.error = "UnknownFormat" -> "UnsupportedFormat"
                    [] r.error = "UnsupportedFormat" -> "UnsupportedFormat"
                    [] r.error = "Render" -> "RenderError",
          doc |-> None, out_format |-> None]))

\* the get_title that stores the length before it looks for a NUL
formatrix_get_title_LengthFirst(h, out_title_null, out_length_null) ==
    IF h = None \/ out_title_null \/ out_length_null
    THEN [ret |-> "NullPointer", out_title |-> None, out_length |-> None]
    ELSE
    Let(unwrap_or(h[1].meta.title, <<>>), LAMBDA title :
    IF ~CString_new(title).ok
    THEN [ret |-> "InvalidInput", out_title |-> None,
          out_length |-> Some(Len(title))]
    ELSE [ret |-> "Success", out_title |-> Some(title),
          out_length |-> Some(Len(title))])

\* formatrix_get_title: h is None for a null handle
formatrix_get_title(h, out_title_null, out_length_null) ==
    IF h = None \/ out_title_null \/ out_length_null
    THEN [ret |-> "NullPointer", out_title |-> None, out_length |-> None]
    ELSE
    Let(unwrap_or(h[1].meta.title, <<>>), LAMBDA title :
    IF ~CString_new(title).ok
    THEN [ret |-> "InvalidInput", out_title |-> None, out_length |-> None]
    ELSE [ret |-> "Success", out_title |-> Some(title),
          out_length |-> Some(Len(title))])

----------------------------------------------------------------------------
(* A caller of the C interface: it gets a handle from formatrix_parse or   *)
(* formatrix_open_file, renders through it, asks for the title, and frees  *)
(* it                                                                      *)

\* the out-parameters of a call, none of them written
NoOutputs ==
    [out_handle |-> FALSE, out_format |-> None, out_content |-> None,
     out_title |-> None, out_length |-> None]

\* the record of a call: its name, its arguments (arg is the text or path,
\* nulls says that a required pointer was null, outcome is what the handler
\* called did), its FfiResult and the out-parameters it wrote
FfiCall(fn, arg, format, nulls, outcome, ret, outs) ==
    [fn |-> fn, arg |-> arg, format |-> format, null_args |-> nulls,
     outcome |-> outcome, ret |-> ret, out_handle |-> outs.out_handle,
     out_format |-> outs.out_format, out_content |-> outs.out_content,
     out_title |-> outs.out_title, out_length |-> outs.out_length]

\* the C strings handed to formatrix_parse; None is the null pointer
FfiContents ==
    { None, Some(<<>>), Some(<<"=", " ", "T">>), Some(<<"p">>),
      Some(<<BadByte>>) }

\* the paths handed to formatrix_open_file
FfiPaths == { None, Some(PathMd), Some(PathAdoc), Some(PathNoExt),
              Some(<<BadByte>>) }

\* what the handler called by formatrix_open_file does: Ok or a
\* ConversionError, which reaches the caller as the FileError made of it
FfiOutcomes == HandlerOutcomes

\* what the handler called by formatrix_parse or formatrix_render does:
\* these two treat every ConversionError alike
FfiDirectOutcomes == {"ok", "ParseError", "SerializationError"}

InitFfi ==
    /\ pc = "start"
    /\ ContentIdle /\ ExtIdle /\ AdocIdle /\ FfiIdle
    /\ ConvIdle /\ FeatureIdle
    /\ HeapIdle
    /\ \E a \in {None, File(<<>>, FALSE), File(<<"#", " ", "h">>, FALSE)},
          b \in {None, File(<<"=", " ", "a", NUL, "b">>, FALSE),
                 File(<<"=", " ", "T">>, FALSE), File(<<"p">>, TRUE)} :
           fs = (PathMd :> a) @@ (PathAdoc :> b) @@ (PathNoExt :> None)
    /\ opened = None
    /\ fileResult = [op |-> "none"]
    /\ steps = <<>>

\* formatrix_parse(content, format, &handle)
CallParse(c, format, out_handle_null, outcome) ==
    /\ pc = "start"
    /\ \E r \in {formatrix_parse(c, format, out_handle_null, outcome)} :
       /\ handle' = r.doc
       /\ ffiCall' = FfiCall("formatrix_parse", c, format,
                             c = None \/ out_handle_null, outcome, r.ret,
                             [NoOutputs EXCEPT !.out_handle = is_some(r.doc)])
       /\ pc' = IF r.ret = "Success" THEN "holding" ELSE "start"
    /\ UNCHANGED <<contentVars, extVars, adocVars, fileVars,
                   convVars, featureVars,
                   heapVars>>

\* formatrix_open_file(path, &handle, &format)
CallOpenFileFfi(p, out_handle_null, out_format_null, outcome) ==
    /\ pc = "start"
    /\ \E r \in {formatrix_open_file(fs, p, out_handle_null,
                                    out_format_null, outcome)} :
           /\ handle' = r.doc
           /\ ffiCall' = FfiCall("formatrix_open_file", p,
                                 unwrap_or(r.out_format, 0),
                                 p = None \/ out_handle_null
                                     \/ out_format_null,
                                 outcome, r.ret,
                                 [NoOutputs EXCEPT
                                     !.out_handle = is_some(r.doc),
                                     !.out_format = r.out_format])
           /\ pc' = IF r.ret = "Success" THEN "holding" ELSE "start"
    /\ UNCHANGED <<contentVars, extVars, adocVars, fileVars,
                   convVars, featureVars,
                   heapVars>>

\* formatrix_render(handle, format, &out_content, &out_length); the caller
\* passes its live handle or a null one
CallRender(null_handle, format, out_content_null, out_length_null, outcome) ==
    /\ pc \in {"start", "holding"}
    /\ \E h \in {IF null_handle THEN None ELSE handle} :
       \E r \in {formatrix_render(h, format, out_content_null,
                                  out_length_null, outcome)} :
           ffiCall' = FfiCall("formatrix_render", h, format,
                              h = None \/ out_content_null
                                  \/ out_length_null,
                              outcome, r.ret,
                              [NoOutputs EXCEPT
                                  !.out_content = r.out_content,
                                  !.out_length = r.out_length])
    /\ UNCHANGED <<pc, handle, contentVars, extVars, adocVars, fileVars,
                   convVars, featureVars,
                   heapVars>>

\* formatrix_free_document(handle): nothing happens on a null handle
CallFreeDocument ==
    /\ pc \in {"start", "holding"}
    /\ handle' = None
    /\ ffiCall' = FfiCall("formatrix_free_document", handle, 0,
                          handle = None, "ok", "void", NoOutputs)
    /\ pc' = "start"
    /\ UNCHANGED <<contentVars, extVars, adocVars, fileVars,
                   convVars, featureVars,
                   heapVars>>

\* formatrix_get_title(handle, &out_title, &out_length); the caller passes
\* its live handle or a null one
CallGetTitle(null_handle, out_title_null, out_length_null) ==
    /\ pc \in {"start", "holding"}
    /\ \E h \in {IF null_handle THEN None ELSE handle} :
       \E r \in {formatrix_get_title(h, out_title_null, out_length_null)} :
           ffiCall' = FfiCall("formatrix_get_title", h, 0,
                              h = None \/ out_title_null
                                  \/ out_length_null,
                              "ok", r.ret,
                              [NoOutputs EXCEPT
                                  !.out_title = r.out_title,
                                  !.out_length = r.out_length])
    /\ UNCHANGED <<pc, handle, contentVars, extVars, adocVars, fileVars,
                   convVars, featureVars,
                   heapVars>>

NextFfi ==
    \/ \E c \in FfiContents, f \in FfiFormat, n \in BOOLEAN,
          o \in FfiDirectOutcomes : CallParse(c, f, n, o)
    \/ \E p \in FfiPaths, n1 \in BOOLEAN, n2 \in BOOLEAN,
          o \in FfiOutcomes : CallOpenFileFfi(p, n1, n2, o)
    \/ \E nh \in BOOLEAN, f \in FfiFormat, n1 \in BOOLEAN, n2 \in BOOLEAN,
          o \in FfiDirectOutcomes : CallRender(nh, f, n1, n2, o)
    \/ \E nh \in BOOLEAN, n1 \in BOOLEAN, n2 \in BOOLEAN :
           CallGetTitle(nh, n1, n2)
    \/ CallFreeDocument

SpecFfi == InitFfi /\ [][NextFfi]_vars

----------------------------------------------------------------------------
(* Claims about rendering a Document with empty content                    *)

\* a formatrix_render call with no null argument has just returned, on a
\* handle to a Document with empty content
RenderedEmptyContent ==
    /\ ffiCall.fn = "formatrix_render"
    /\ ~ffiCall.null_args
    /\ is_some(handle)
    /\ handle[1].content = <<>>

HasNul(s) == \E i \in 1..Len(s) : s[i] = NUL

\* C10 as stated: AsciidocHandler::render returns Ok for a Document with
\* empty content, formatrix_render returns Success for a handle to such a
\* document for each of the seven target formats, and without a title the
\* AsciiDoc output is the empty string.
C10_AsStated ==
    RenderedEmptyContent =>
        /\ AsciidocRender(handle[1]).ok
        /\ ffiCall.ret = "Success"
        /\ (handle[1].meta.title = None /\ ffiCall.format = 2) =>
               ffiCall.out_content = Some(<<>>)

\* C10: AsciidocHandler::render returns Ok for a Document with empty
\* content, and the empty string when there is no title either;
\* formatrix_render on a handle to such a document never returns
\* RenderError: it returns Success with the rendered text and its length,
\* except that it returns InvalidInput and writes no output when the
\* rendered text holds a NUL character, which for the AsciiDoc target is
\* exactly when the title holds one.
C10_EmptyContentRenders ==
    RenderedEmptyContent =>
        LET doc == handle[1]
            title == doc.meta.title
            adoc == AsciidocRender(doc)
        IN  /\ adoc.ok
            /\ title = None => adoc.value = <<>>
            /\ ffiCall.ret \in {"Success", "InvalidInput"}
            /\ ffiCall.ret = "InvalidInput" =>
                   /\ is_some(title) /\ HasNul(title[1])
                   /\ ffiCall.out_content = None
                   /\ ffiCall.out_length = None
            /\ ffiCall.ret = "Success" =>
                   /\ is_some(ffiCall.out_content)
                   /\ ~HasNul(ffiCall.out_content[1])
                   /\ ffiCall.out_length = Some(Len(ffiCall.out_content[1]))
            /\ ffiCall.format = 2 =>
                   /\ (ffiCall.ret = "InvalidInput") <=>
                          (is_some(title) /\ HasNul(title[1]))
                   /\ ffiCall.ret = "Success" =>
                          ffiCall.out_content = Some(adoc.value)
                   /\ (title = None) => ffiCall.out_content = Some(<<>>)

\* a Document with a NUL in its title and no content, opened from a file,
\* was rendered as AsciiDoc
C10_Witness ==
    /\ RenderedEmptyContent
    /\ ffiCall.format = 2
    /\ is_some(handle[1].meta.title)
    /\ HasNul(handle[1].meta.title[1])
    /\ ffiCall.ret = "InvalidInput"

----------------------------------------------------------------------------
(* The AsciiDoc renderer at work on every variant of the document tree     *)

MaxRenderBlocks == 1

\* one inline of every variant (a sequence: the variants are records of
\* different shapes)
InlinePool ==
    << Text(<<"a">>),
       Emphasis(<<Text(<<"e">>)>>),
       Strong(<<Text(<<"s">>)>>),
       Strikethrough(<<Text(<<"d">>)>>),
       Code(<<"c">>),
       Link(<<"u">>, <<Text(<<"l">>)>>, None),
       Link(<<"u">>, <<Text(<<"l">>)>>, Some(<<"t">>)),
       Image(<<"i">>, <<"a">>, None),
       Math(<<"m">>),
       LineBreak,
       SoftBreak >>

\* blocks of every variant
RenderPool ==
    [k \in 1..Len(InlinePool) |-> Paragraph(<<InlinePool[k]>>)]
    \o << Paragraph(<<Text(<<"a">>), Strong(<<Text(<<"s">>)>>),
                      Code(<<"c">>)>>) >>
    \o [n \in 1..6 |-> Heading(n, <<Text(<<"S", " ", "T">>)>>, None)]
    \o [n \in 1..6 |-> Heading(n, <<Text(<<"S", " ", "T">>)>>,
                               Some(<<"i", "d">>))]
    \o << CodeBlock(None, <<>>),
          CodeBlock(None, <<"f", "n">>),
          CodeBlock(None, <<"f", "n", NL>>),
          CodeBlock(Some(<<"r", "s">>), <<"f", "n">>),
          CodeBlock(Some(<<"r", "s">>), <<"f", "n", NL>>),
          CodeBlock(Some(<<"r", "s">>), <<"f", NL, NL>>),
          BlockQuote(<<Paragraph(<<Text(<<"a">>)>>)>>, None),
          BlockQuote(<<Paragraph(<<Text(<<"a">>)>>)>>,
                     Some(<<Text(<<"w">>)>>)),
          List("Bullet", <<ListItem(<<Paragraph(<<Text(<<"a">>)>>)>>, None),
                           ListItem(<<Paragraph(<<Text(<<"b">>)>>)>>, None)>>,
               None),
          List("Ordered", <<ListItem(<<Paragraph(<<Text(<<"a">>)>>)>>, None),
                            ListItem(<<Paragraph(<<Text(<<"b">>)>>)>>, None)>>,
               None),
          List("Ordered", <<ListItem(<<Paragraph(<<Text(<<"a">>)>>)>>, None),
                            ListItem(<<Paragraph(<<Text(<<"b">>)>>)>>, None)>>,
               Some(u32(9))),
          List("Task", <<ListItem(<<Paragraph(<<Text(<<"a">>)>>)>>,
                                  Some(TRUE)),
                         ListItem(<<Paragraph(<<Text(<<"b">>)>>)>>, None)>>,
               None),
          ThematicBreak,
          Raw("html", <<"<", "b", ">">>),
          Container(<<"sidebar">>, <<Paragraph(<<Text(<<"a">>)>>)>>),
          Container(<<>>, <<Paragraph(<<Text(<<"a">>)>>)>>),
          Table(Some(TableRow(<<TableCell(<<Paragraph(<<Text(<<"h">>)>>)>>)>>)),
                <<TableRow(<<TableCell(<<Paragraph(<<Text(<<"a">>)>>)>>)>>)>>,
                Some(<<Text(<<"c">>)>>)),
          Table(None,
                <<TableRow(<<TableCell(<<Paragraph(<<Text(<<"a">>)>>)>>)>>)>>,
                None),
          MathBlock(<<"x">>) >>

\* the retained source text of the Document handed to render
RawSources == { None, Some(<<"r", "a", "w">>) }

InitRender ==
    /\ pc = "start"
    /\ ContentIdle /\ ExtIdle /\ FileIdle /\ FfiIdle
    /\ ConvIdle /\ FeatureIdle
    /\ HeapIdle
    /\ \E t \in DocTitles, raw \in RawSources, n \in 0..MaxRenderBlocks :
          \E ix \in [1..n -> 1..Len(RenderPool)] :
              srcDoc = Document("AsciiDoc", t,
                                [k \in 1..n |-> RenderPool[ix[k]]], raw)
    /\ parseConfig = <<>>
    /\ rendered = None
    /\ parseInput = <<>>
    /\ parsed = None

SpecRender == InitRender /\ [][Render]_vars

----------------------------------------------------------------------------
(* Claims about the AsciiDoc renderer                                      *)

\* C11: rendering does not read raw_source: the Document just rendered and
\* the Documents that differ from it only in raw_source give the same text,
\* in AsciiDoc and in the six other target formats.
C11_RenderIgnoresRawSource ==
    pc = "rendered" =>
        \A raw \in RawSources :
            LET d == [srcDoc EXCEPT !.raw_source = raw] IN
            /\ AsciidocRender(d) = Ok(rendered[1])
            /\ \A f \in SourceFormat \ {"AsciiDoc"} :
                   GenericRender(f, d, "ok") = GenericRender(f, srcDoc, "ok")

\* a Document that retains a source text different from its rendering was
\* rendered
C11_Witness ==
    /\ pc = "rendered"
    /\ is_some(srcDoc.raw_source)
    /\ srcDoc.content # <<>>
    /\ rendered[1] # srcDoc.raw_source[1]

\* the variants of Block and Inline in the canonical model
BlockKinds ==
    {"Paragraph", "Heading", "CodeBlock", "BlockQuote", "List",
     "ThematicBreak", "Raw", "Container", "Table", "MathBlock"}

InlineKinds ==
    {"Text", "Emphasis", "Strong", "Strikethrough", "Code", "Link", "Image",
     "Math", "LineBreak", "SoftBreak"}

\* C12: every Block and Inline variant has a rendering of its own: the
\* blocks and inlines at hand cover all variants, none of them renders to
\* nothing (as the catch-all arm does), the text of every block of the
\* rendered Document is in the output, and the text of every inline of a
\* Paragraph is in the text of the Paragraph.
C12_EveryVariantRendered ==
    /\ { RenderPool[k].kind : k \in 1..Len(RenderPool) } = BlockKinds
    /\ { InlinePool[k].kind : k \in 1..Len(InlinePool) } = InlineKinds
    /\ \A k \in 1..Len(InlinePool) : render_inline(InlinePool[k]) # <<>>
    /\ pc = "rendered" =>
           \A j \in 1..Len(srcDoc.content) :
               LET b == srcDoc.content[j] IN
               /\ render_block(b) # <<>>
               /\ contains(rendered[1], TrimTrailingNewlines(render_block(b)))
               /\ b.kind = "Paragraph" =>
                      \A i \in 1..Len(b.content) :
                          contains(render_block(b),
                                   render_inline(b.content[i]))

\* a Paragraph of three inlines was rendered
C12_Witness ==
    /\ pc = "rendered"
    /\ \E j \in 1..Len(srcDoc.content) :
           /\ srcDoc.content[j].kind = "Paragraph"
           /\ Len(srcDoc.content[j].content) = 3

\* the text the claim gives for a CodeBlock
CodeBlockText(b) ==
    (IF is_some(b.language)
     THEN <<"[", "s", "o", "u", "r", "c", "e", ",">> \o b.language[1]
          \o <<"]", NL>>
     ELSE <<>>)
    \o <<"-", "-", "-", "-", NL>>
    \o b.content
    \o (IF b.content # <<>> /\ b.content[Len(b.content)] = NL
        THEN <<>> ELSE <<NL>>)
    \o <<"-", "-", "-", "-">>

\* C16: a CodeBlock is rendered as the line [source,L] (left out when
\* there is no language), the line ----, the content followed by a newline
\* that is added only when the content does not end with one, and ----.
C16_CodeBlockText ==
    pc = "rendered" =>
        /\ \A j \in 1..Len(srcDoc.content) :
               srcDoc.content[j].kind = "CodeBlock" =>
                   contains(rendered[1], CodeBlockText(srcDoc.content[j]))
        /\ (/\ srcDoc.meta.title = None
            /\ Len(srcDoc.content) = 1
            /\ srcDoc.content[1].kind = "CodeBlock") =>
               rendered[1] = CodeBlockText(srcDoc.content[1])

\* a CodeBlock with language rs and content fn was rendered
C16_Witness ==
    /\ pc = "rendered"
    /\ srcDoc.meta.title = None
    /\ srcDoc.content = <<CodeBlock(Some(<<"r", "s">>), <<"f", "n">>)>>
    /\ rendered[1] = <<"[", "s", "o", "u", "r", "c", "e", ",", "r", "s", "]",
                       NL, "-", "-", "-", "-", NL, "f", "n", NL,
                       "-", "-", "-", "-">>

----------------------------------------------------------------------------
(* convert_block at work on blocks of the asciidoc_parser tree: compound   *)
(* delimited blocks of every context with up to MaxChildren nested blocks, *)
(* and one block for every other arm                                       *)

MaxChildren == 2

\* the nested blocks at hand
AdocChildPool ==
    <<AdocSimple(<<"p">>),
      AdocSimple(<<"q">>),
      AdocBreak,
      AdocDocumentAttribute,
      AdocRawDelimited("listing", <<"c">>, None),
      AdocSection(1, <<"s">>, <<>>),
      AdocCompoundDelimited("open", <<AdocSimple(<<"r">>),
                                      AdocSimple(<<"t">>)>>)>>

\* compound.raw_context(): example and open blocks are the generic ones
CompoundContexts == {"example", "open", "quote", "verse", "sidebar"}

\* the blocks that are not compound delimited blocks
AdocBlockPool ==
    <<AdocSimple(<<"p", "<", "q">>),
      AdocSection(1, <<"s">>, <<AdocSimple(<<"p">>)>>),
      AdocSection(2, <<"s">>, <<>>),
      AdocSection(3, <<"s">>, <<>>),
      AdocSection(4, <<"s">>, <<>>),
      AdocSection(5, <<"s">>, <<>>),
      AdocRawDelimited("listing", <<"c">>, None),
      AdocRawDelimited("source", <<"c">>, Some(<<"r", "s">>)),
      AdocRawDelimited("literal", <<"c">>, None),
      AdocRawDelimited("pass", <<"c">>, None),
      AdocRawDelimited("passthrough", <<"c">>, None),
      AdocRawDelimited("comment", <<"c">>, None),
      AdocPreamble(<<AdocSimple(<<"p">>), AdocSimple(<<"q">>)>>),
      AdocPreamble(<<AdocDocumentAttribute>>),
      AdocBreak,
      AdocMedia(Some(<<"i">>), Some(<<"a">>)),
      AdocMedia(None, None),
      AdocDocumentAttribute>>

InitConvert ==
    /\ pc = "start"
    /\ ContentIdle /\ ExtIdle /\ AdocIdle /\ FileIdle /\ FfiIdle
    /\ FeatureIdle
    /\ HeapIdle
    /\ \/ \E k \in 1..Len(AdocBlockPool) : adocBlock = AdocBlockPool[k]
       \/ \E ctx \in CompoundContexts, n \in 0..MaxChildren :
              \E ix \in [1..n -> 1..Len(AdocChildPool)] :
                  adocBlock = AdocCompoundDelimited(ctx,
                                  [k \in 1..n |-> AdocChildPool[ix[k]]])
    /\ converted = "unset"

\* convert_block(&adocBlock)
ConvertBlock ==
    /\ pc = "start"
    /\ \E r \in {convert_block(adocBlock)} : converted' = r
    /\ pc' = "converted"
    /\ UNCHANGED <<adocBlock, contentVars, extVars, adocVars, fileVars,
                   ffiVars, featureVars,
                   heapVars>>

SpecConvert == InitConvert /\ [][ConvertBlock]_vars

----------------------------------------------------------------------------
(* Claims about convert_block                                              *)

\* a compound delimited block that is neither quote/verse nor sidebar
IsGenericCompound(b) ==
    /\ b.kind = "CompoundDelimited"
    /\ b.context \notin {"quote", "verse", "sidebar"}

\* C14: of a generic compound block no nested block is discarded: with one
\* convertible child the child takes the place of the wrapper, with two or
\* more the result is a Container holding all of them in order.
C14_GenericCompoundKeepsChildren ==
    (pc = "converted" /\ IsGenericCompound(adocBlock)) =>
        LET kids == convert_children(adocBlock.blocks) IN
        /\ Len(kids) = 1 => converted = Some(kids[1])
        /\ Len(kids) >= 2 =>
               /\ converted # None
               /\ converted[1].kind = "Container"
               /\ converted[1].content = kids

----------------------------------------------------------------------------
(* formats/asciidoc.rs: FormatHandler for AsciidocHandler                  *)

\* supports_feature with the last name of the list forgotten
supports_feature_NoMacro(feature) ==
    feature \in
        {"heading", "bold", "italic", "strikethrough", "code", "code_block",
         "link", "image", "list", "table", "math", "admonition", "footnote",
         "cross_reference", "include"}

\* supports_feature: matches!(feature, "heading" | "bold" | ... | "macro")
supports_feature(feature) ==
    \/ feature = "heading"
    \/ feature = "bold"
    \/ feature = "italic"
    \/ feature = "strikethrough"
    \/ feature = "code"
    \/ feature = "code_block"
    \/ feature = "link"
    \/ feature = "image"
    \/ feature = "list"
    \/ feature = "table"
    \/ feature = "math"
    \/ feature = "admonition"
    \/ feature = "footnote"
    \/ feature = "cross_reference"
    \/ feature = "include"
    \/ feature = "macro"

\* supported_features: the slice it returns
supported_features ==
    <<"heading", "bold", "italic", "strikethrough", "code", "code_block",
      "link", "image", "list", "table", "math", "admonition", "footnote",
      "cross_reference", "include", "macro">>

\* the vocabulary of feature names the handlers share
FeatureVocabulary ==
    {"heading", "bold", "italic", "strikethrough", "code", "code_block",
     "link", "image", "list", "table", "math", "admonition", "footnote",
     "cross_reference", "include", "macro"}

\* the names a caller asks about: the vocabulary, near misses of its names,
\* and names that have nothing to do with it
FeatureNames ==
    FeatureVocabulary
    \cup { v \o "s" : v \in FeatureVocabulary }
    \cup { v \o " " : v \in FeatureVocabulary }
    \cup { " " \o v : v \in FeatureVocabulary }
    \cup { v \o "_" : v \in FeatureVocabulary }
    \cup { "no_" \o v : v \in FeatureVocabulary }
    \cup {"", "Heading", "BOLD", "video", "codeblock", "code-block",
          "cross-reference"}

InitFeature ==
    /\ pc = "start"
    /\ ContentIdle /\ ExtIdle /\ AdocIdle /\ FileIdle /\ FfiIdle
    /\ ConvIdle
    /\ HeapIdle
    /\ featureCall = [fn |-> "none"]

\* handler.supports_feature(name)
CallSupportsFeature(name) ==
    /\ featureCall' = [fn |-> "supports_feature", feature |-> name,
                       ret |-> supports_feature(name)]
    /\ UNCHANGED <<pc, contentVars, extVars, adocVars, fileVars, ffiVars,
                   convVars,
                   heapVars>>

\* handler.supported_features()
CallSupportedFeatures ==
    /\ featureCall' = [fn |-> "supported_features",
                       ret |-> supported_features]
    /\ UNCHANGED <<pc, contentVars, extVars, adocVars, fileVars, ffiVars,
                   convVars,
                   heapVars>>

NextFeature ==
    \/ \E name \in FeatureNames : CallSupportsFeature(name)
    \/ CallSupportedFeatures

SpecFeature == InitFeature /\ [][NextFeature]_vars

----------------------------------------------------------------------------
(* Claims about the feature queries                                        *)

\* C18: supports_feature(name) is true exactly when name is a member of
\* supported_features(), and false for every name outside the vocabulary;
\* supported_features() holds names of the vocabulary only, none of them
\* twice.
C18_FeatureQueriesAgree ==
    /\ featureCall.fn = "supports_feature" =>
           /\ featureCall.ret =
                  (\E k \in 1..Len(supported_features) :
                       supported_features[k] = featureCall.feature)
           /\ featureCall.feature \notin FeatureVocabulary =>
                  featureCall.ret = FALSE
    /\ featureCall.fn = "supported_features" =>
           /\ \A k \in 1..Len(featureCall.ret) :
                  featureCall.ret[k] \in FeatureVocabulary
           /\ \A i, j \in 1..Len(featureCall.ret) :
                  i # j => featureCall.ret[i] # featureCall.ret[j]

\* the handler was asked about "macro", the last name of both lists, and
\* said yes
C18_Witness ==
    /\ featureCall.fn = "supports_feature"
    /\ featureCall.feature = "macro"
    /\ featureCall.ret = TRUE

----------------------------------------------------------------------------
(* Saving: a file is opened and the document is saved under a path, by     *)
(* save_file_with_config or through the C interface                        *)

\* formatrix_save_file: h is None for a null handle, p for a null path
formatrix_save_file(files, h, p, outcome) ==
    IF h = None \/ p = None
    THEN [ret |-> "NullPointer", files |-> files, log |-> <<>>]
    ELSE
    Let(CStr_to_str(p[1]), LAMBDA path_str :
    IF ~path_str.ok
    THEN [ret |-> "Utf8Error", files |-> files, log |-> <<>>]
    ELSE
    Let(save_file(files, h[1], path_str.value, outcome), LAMBDA r :
    [ret |-> IF r.res.ok THEN "Success"
             ELSE CASE r.res.error = "Io" -> "InvalidInput"
                    [] r.res.error = "Render" -> "RenderError"
                    [] r.res.error = "UnsupportedFormat" ->
                           "UnsupportedFormat"
                    [] OTHER -> "RenderError",
     files |-> r.files, log |-> r.log]))

\* a path whose extension names no format
PathXyz == <<"d", ".", "x", "y", "z">>

\* the paths handed to formatrix_save_file
SavePaths ==
    { None, Some(PathMd), Some(PathAdoc), Some(PathNoExt), Some(PathNoDir),
      Some(PathXyz), Some(<<BadByte>>) }

InitSave ==
    /\ pc = "start"
    /\ ContentIdle /\ ExtIdle /\ AdocIdle /\ FfiIdle
    /\ ConvIdle /\ FeatureIdle
    /\ HeapIdle
    /\ \E a \in {None, File(<<"#", " ", "h">>, FALSE)},
          b \in {None, File(<<"=", " ", "T">>, FALSE),
                 File(<<"=", "=", " ", "s", NL, NL, "p">>, TRUE)},
          c \in {None, File(<<"p">>, FALSE)} :
           fs = (PathMd :> a) @@ (PathAdoc :> b) @@ (PathNoExt :> c)
                @@ (PathXyz :> None)
    /\ opened = None
    /\ fileResult = [op |-> "none"]
    /\ steps = <<>>

\* formatrix_save_file(handle, path); the handle is the opened document or
\* null
CallSaveFileFfi(null_handle, p, outcome) ==
    /\ pc = "opened"
    /\ \E h \in {IF null_handle THEN None ELSE Some(opened[1].document)} :
       \E r \in {formatrix_save_file(fs, h, p, outcome)} :
           /\ fs' = r.files
           /\ fileResult' = [op |-> "formatrix_save_file", in |-> <<>>,
                             out |-> unwrap_or(p, <<>>), res |-> r.ret]
           /\ steps' = r.log
    /\ pc' = "done"
    /\ UNCHANGED <<opened, contentVars, extVars, adocVars, ffiVars,
                   convVars, featureVars,
                   heapVars>>

NextSave ==
    \/ \E p \in FilePaths \cup {PathNoDir}, cfg \in ParseConfigs,
          o \in HandlerOutcomes : CallOpenFile(p, cfg, o)
    \/ \E p \in FilePaths \cup {PathNoDir, PathXyz},
          cfg \in RenderConfigs, o \in HandlerOutcomes :
           CallSaveFile(p, cfg, o)
    \/ \E nh \in BOOLEAN, p \in SavePaths, o \in HandlerOutcomes :
           CallSaveFileFfi(nh, p, o)

SpecSave == InitSave /\ [][NextSave]_vars

\* C19: save_file_with_config and formatrix_save_file render in the format
\* of the target path's extension when format_from_extension returns Some,
\* and in the document's source_format when the extension is missing or
\* not recognised; they never fail with UnknownFormat.
C19_SaveFormatFromExtensionOrSource ==
    fileResult.op \in {"save_file_with_config", "formatrix_save_file"} =>
        LET ext == format_from_extension(fileResult.out)
            doc == opened[1].document
        IN  /\ fileResult.res \notin {"UnknownFormat"}
            /\ fileResult.op = "save_file_with_config" =>
                   HasStage(steps, "render")
            /\ HasStage(steps, "render") =>
                   /\ is_some(ext) => StageFormat(steps, "render") = ext[1]
                   /\ ext = None =>
                          StageFormat(steps, "render") = doc.source_format
            /\ fileResult.res \in {"Ok", "Success"} =>
                   /\ is_some(fs[fileResult.out])
                   /\ Ok(fs[fileResult.out][1].data) =
                          render_content(doc,
                              IF is_some(ext) THEN ext[1]
                              ELSE doc.source_format,
                              RenderConfig_default, "ok")

\* the document of b.adoc was saved through the C interface under a path
\* without extension, as AsciiDoc
C19_Witness ==
    /\ fileResult.op = "formatrix_save_file"
    /\ fileResult.out = PathNoExt
    /\ fileResult.res = "Success"
    /\ opened[1].document.source_format = "AsciiDoc"
    /\ opened[1].document.content # <<>>
    /\ StageFormat(steps, "render") = "AsciiDoc"

----------------------------------------------------------------------------
(* Claims about the result codes of the C interface                        *)

\* the four functions that hand results back through out-parameters
FfiWriters ==
    {"formatrix_parse", "formatrix_render", "formatrix_get_title",
     "formatrix_open_file"}

\* the out-parameters of the call: all of them were written
AllWritten(c) ==
    CASE c.fn = "formatrix_parse" -> c.out_handle
      [] c.fn = "formatrix_open_file" ->
            c.out_handle /\ is_some(c.out_format)
      [] c.fn = "formatrix_render" ->
            is_some(c.out_content) /\ is_some(c.out_length)
      [] c.fn = "formatrix_get_title" ->
            is_some(c.out_title) /\ is_some(c.out_length)

\* none of the out-parameters was written
NoneWritten(c) ==
    /\ ~c.out_handle
    /\ c.out_format = None
    /\ c.out_content = None
    /\ c.out_title = None
    /\ c.out_length = None

\* the bytes are UTF-8
ValidUtf8(bytes) == \A i \in 1..Len(bytes) : bytes[i] # BadByte

----------------------------------------------------------------------------
(* ffi.rs: the handles. A DocumentHandle is a Box on the heap; the caller  *)
(* holds its address, and 0 is the null pointer.                           *)

MaxHandles == 2

MaxStrings == 2

Addresses == 1..MaxHandles

\* an allocator that hands out the same slot to every caller
Box_new_Static(hp) == { 1 }

\* Box::new: an address that holds no live handle
Box_new(hp) == { a \in Addresses : hp[a] = None }

\* (*handle).doc behind a pointer the caller holds; None for the null
\* pointer
Deref(hp, h) == IF h = 0 THEN None ELSE hp[h]

\* a function that takes the title out of the document it reads
ReadOnly_TitleTaken(hp, h) ==
    IF h = 0 \/ hp[h] = None THEN hp
    ELSE [hp EXCEPT ![h] = Some([@[1] EXCEPT !.meta.title = None])]

\* the heap after a function that takes `handle: *const DocumentHandle`
\* and works with `&(*handle).doc`
ReadOnly(hp, h) == hp

\* formatrix_free_document: the heap after it
formatrix_free_document(hp, h) ==
    IF h # 0 THEN [hp EXCEPT ![h] = None] ELSE hp

\* formatrix_free_string: the number of live strings after it
formatrix_free_string(n, s_null) == IF ~s_null THEN n - 1 ELSE n

\* formatrix_block_count: h is None for a null handle
formatrix_block_count(h) == IF h = None THEN 0 ELSE Len(h[1].content)

\* formatrix_get_format
formatrix_get_format(h) ==
    IF h = None THEN 0 ELSE FfiFormat_from(h[1].source_format)

\* formatrix_save_file_as
formatrix_save_file_as(files, h, p, format, outcome) ==
    IF h = None \/ p = None
    THEN [ret |-> "NullPointer", files |-> files, log |-> <<>>]
    ELSE
    Let(CStr_to_str(p[1]), LAMBDA path_str :
    IF ~path_str.ok
    THEN [ret |-> "Utf8Error", files |-> files, log |-> <<>>]
    ELSE
    Let(save_file_as(files, h[1], path_str.value, SourceFormat_from(format),
                     RenderConfig_default, outcome), LAMBDA r :
    [ret |-> IF r.res.ok THEN "Success"
             ELSE CASE r.res.error = "Io" -> "InvalidInput"
                    [] r.res.error = "Render" -> "RenderError"
                    [] r.res.error = "UnsupportedFormat" ->
                           "UnsupportedFormat"
                    [] OTHER -> "RenderError",
     files |-> r.files, log |-> r.log]))

\* the convert that returns at once when the render failed
formatrix_convert_LeakOnError(hp, a, c, from_format, to_format, out_null, po, ro) ==
    IF c = None \/ out_null
    THEN [ret |-> "NullPointer", out_content |-> None, out_length |-> None,
          heap |-> hp, events |-> <<>>]
    ELSE
    Let(formatrix_parse(c, from_format, FALSE, po), LAMBDA parsed_ :
    IF parsed_.ret # "Success"
    THEN [ret |-> parsed_.ret, out_content |-> None, out_length |-> None,
          heap |-> hp, events |-> <<>>]
    ELSE
    Let(formatrix_render(parsed_.doc, to_format, FALSE, FALSE, ro),
        LAMBDA r :
    IF r.ret # "Success"
    THEN [ret |-> r.ret, out_content |-> r.out_content,
          out_length |-> r.out_length,
          heap |-> [hp EXCEPT ![a] = parsed_.doc],
          events |-> <<<<"alloc", a>>>>]
    ELSE [ret |-> r.ret, out_content |-> r.out_content,
          out_length |-> r.out_length,
          heap |-> formatrix_free_document([hp EXCEPT ![a] = parsed_.doc],
                                           a),
          events |-> <<<<"alloc", a>>, <<"free", a>>>>]))

\* formatrix_convert: a is the address Box::new hands out; the result, the
\* heap after the call, and the allocations and releases of the call
formatrix_convert(hp, a, c, from_format, to_format, out_null, po, ro) ==
    IF c = None \/ out_null
    THEN [ret |-> "NullPointer", out_content |-> None, out_length |-> None,
          heap |-> hp, events |-> <<>>]
    ELSE
    Let(formatrix_parse(c, from_format, FALSE, po), LAMBDA parsed_ :
    IF parsed_.ret # "Success"
    THEN [ret |-> parsed_.ret, out_content |-> None, out_length |-> None,
          heap |-> hp, events |-> <<>>]
    ELSE
    Let([hp EXCEPT ![a] = parsed_.doc], LAMBDA hp1 :
    Let(formatrix_render(Deref(hp1, a), to_format, FALSE, FALSE, ro),
        LAMBDA r :
    [ret |-> r.ret, out_content |-> r.out_content,
     out_length |-> r.out_length,
     heap |-> formatrix_free_document(hp1, a),
     events |-> <<<<"alloc", a>>, <<"free", a>>>>])))

----------------------------------------------------------------------------
(* Callers of the C interface: each gets a handle from formatrix_parse,    *)
(* reads the document through it, and frees it                             *)

Callers == {"A", "B"}

\* the record of a call: ret is the FfiResult, "value" for a function that
\* returns a number (then in out) and "void" for one that returns nothing;
\* events are the allocations and releases of handles the call made
HandleCall(caller, fn, arg, format, outcome, ret, out, events) ==
    [caller |-> caller, fn |-> fn, arg |-> arg, format |-> format,
     outcome |-> outcome, ret |-> ret, out |-> out, events |-> events]

\* the texts handed to formatrix_parse and formatrix_convert
HandleContents ==
    { None, Some(<<"=", " ", "T", NL, NL, "p">>), Some(<<"p">>),
      Some(<<BadByte>>) }

\* the formats the callers parse from
HandleFormats == {1, 2}

\* the formats formatrix_convert renders to
ConvertTargets == {1}

\* what a handler does: Ok or a ConversionError
HandleOutcomes == {"ok", "SerializationError"}

\* the paths the callers save to
HandlePaths == { None, Some(PathMd) }

InitHandles ==
    /\ pc = "start"
    /\ ContentIdle /\ ExtIdle /\ AdocIdle /\ FfiIdle
    /\ ConvIdle /\ FeatureIdle
    /\ fs = (PathMd :> None)
    /\ opened = None
    /\ fileResult = [op |-> "none"]
    /\ steps = <<>>
    /\ heap = [a \in Addresses |-> None]
    /\ created = [c \in Callers |-> None]
    /\ owner = [c \in Callers |-> 0]
    /\ strings = 0
    /\ lastCall = [fn |-> "none"]

\* formatrix_parse(text, format, &handle) by a caller that holds none
HParse(c, text, format, outcome) ==
    /\ owner[c] = 0
    /\ \E a \in Box_new(heap) :
       \E r \in {formatrix_parse(text, format, FALSE, outcome)} :
           /\ heap' = IF r.ret = "Success" THEN [heap EXCEPT ![a] = r.doc]
                      ELSE heap
           /\ created' = IF r.ret = "Success"
                         THEN [created EXCEPT ![c] = r.doc] ELSE created
           /\ owner' = [owner EXCEPT
                           ![c] = IF r.ret = "Success" THEN a ELSE 0]
           /\ lastCall' = HandleCall(c, "formatrix_parse", text, format,
                              outcome, r.ret, None,
                              IF r.ret = "Success" THEN <<<<"alloc", a>>>>
                              ELSE <<>>)
    /\ UNCHANGED <<pc, strings, contentVars, extVars, adocVars, fileVars,
                   ffiVars, convVars, featureVars>>

\* formatrix_render(handle, format, &out_content, &out_length)
HRender(c, format, outcome) ==
    /\ strings < MaxStrings
    /\ \E r \in {formatrix_render(Deref(heap, owner[c]), format, FALSE,
                                  FALSE, outcome)} :
           /\ strings' = IF r.ret = "Success" THEN strings + 1 ELSE strings
           /\ lastCall' = HandleCall(c, "formatrix_render", owner[c], format,
                              outcome, r.ret, r.out_content, <<>>)
    /\ heap' = ReadOnly(heap, owner[c])
    /\ UNCHANGED <<pc, created, owner, contentVars, extVars, adocVars,
                   fileVars, ffiVars, convVars, featureVars>>

\* formatrix_get_title(handle, &out_title, &out_length)
HGetTitle(c) ==
    /\ strings < MaxStrings
    /\ \E r \in {formatrix_get_title(Deref(heap, owner[c]), FALSE, FALSE)} :
           /\ strings' = IF r.ret = "Success" THEN strings + 1 ELSE strings
           /\ lastCall' = HandleCall(c, "formatrix_get_title", owner[c], 0,
                              "ok", r.ret, r.out_title, <<>>)
    /\ heap' = ReadOnly(heap, owner[c])
    /\ UNCHANGED <<pc, created, owner, contentVars, extVars, adocVars,
                   fileVars, ffiVars, convVars, featureVars>>

\* formatrix_block_count(handle)
HBlockCount(c) ==
    /\ lastCall' = HandleCall(c, "formatrix_block_count", owner[c], 0, "ok",
                       "value", formatrix_block_count(Deref(heap, owner[c])),
                       <<>>)
    /\ heap' = ReadOnly(heap, owner[c])
    /\ UNCHANGED <<pc, created, owner, strings, contentVars, extVars,
                   adocVars, fileVars, ffiVars, convVars, featureVars>>

\* formatrix_get_format(handle)
HGetFormat(c) ==
    /\ lastCall' = HandleCall(c, "formatrix_get_format", owner[c], 0, "ok",
                       "value", formatrix_get_format(Deref(heap, owner[c])),
                       <<>>)
    /\ heap' = ReadOnly(heap, owner[c])
    /\ UNCHANGED <<pc, created, owner, strings, contentVars, extVars,
                   adocVars, fileVars, ffiVars, convVars, featureVars>>

\* formatrix_save_file(handle, path)
HSaveFile(c, p, outcome) ==
    /\ \E r \in {formatrix_save_file(fs, Deref(heap, owner[c]), p,
                                     outcome)} :
           /\ fs' = r.files
           /\ lastCall' = HandleCall(c, "formatrix_save_file", p, 0, outcome,
                              r.ret, None, <<>>)
    /\ heap' = ReadOnly(heap, owner[c])
    /\ UNCHANGED <<pc, created, owner, strings, opened, fileResult, steps,
                   contentVars, extVars, adocVars, ffiVars, convVars,
                   featureVars>>

\* formatrix_save_file_as(handle, path, format)
HSaveFileAs(c, p, format, outcome) ==
    /\ \E r \in {formatrix_save_file_as(fs, Deref(heap, owner[c]), p, format,
                                        outcome)} :
           /\ fs' = r.files
           /\ lastCall' = HandleCall(c, "formatrix_save_file_as", p, format,
                              outcome, r.ret, None, <<>>)
    /\ heap' = ReadOnly(heap, owner[c])
    /\ UNCHANGED <<pc, created, owner, strings, opened, fileResult, steps,
                   contentVars, extVars, adocVars, ffiVars, convVars,
                   featureVars>>

\* formatrix_free_document(handle) on the caller's handle, after which the
\* caller holds none, or formatrix_free_document(null)
HFree(c, null_handle) ==
    /\ \E h \in {IF null_handle THEN 0 ELSE owner[c]} :
           /\ heap' = formatrix_free_document(heap, h)
           /\ created' = IF h # 0 THEN [created EXCEPT ![c] = None]
                         ELSE created
           /\ owner' = IF h # 0 THEN [owner EXCEPT ![c] = 0] ELSE owner
           /\ lastCall' = HandleCall(c, "formatrix_free_document", h, 0,
                              "ok", "void", None,
                              IF heap' # heap THEN <<<<"free", h>>>>
                              ELSE <<>>)
    /\ UNCHANGED <<pc, strings, contentVars, extVars, adocVars, fileVars,
                   ffiVars, convVars, featureVars>>

\* formatrix_free_string(s) on a string of the library or on null
HFreeString(c, s_null) ==
    /\ s_null \/ strings > 0
    /\ strings' = formatrix_free_string(strings, s_null)
    /\ lastCall' = HandleCall(c, "formatrix_free_string", s_null, 0, "ok",
                       "void", None, <<>>)
    /\ UNCHANGED <<pc, heap, created, owner, contentVars, extVars, adocVars,
                   fileVars, ffiVars, convVars, featureVars>>

\* formatrix_convert(text, from, to, &out_content, &out_length)
HConvert(c, text, from_format, to_format, out_null, po, ro) ==
    /\ strings < MaxStrings
    /\ \E a \in Box_new(heap) :
       \E r \in {formatrix_convert(heap, a, text, from_format, to_format,
                                   out_null, po, ro)} :
           /\ heap' = r.heap
           /\ strings' = IF r.ret = "Success" THEN strings + 1 ELSE strings
           /\ lastCall' = HandleCall(c, "formatrix_convert", text,
                              <<from_format, to_format>>, <<po, ro>>, r.ret,
                              r.out_content, r.events)
    /\ UNCHANGED <<pc, created, owner, contentVars, extVars, adocVars,
                   fileVars, ffiVars, convVars, featureVars>>

\* one caller: everything the interface offers on a handle
NextOwner ==
    \/ \E text \in HandleContents, f \in HandleFormats,
          o \in HandleOutcomes : HParse("A", text, f, o)
    \/ \E f \in HandleFormats, o \in HandleOutcomes : HRender("A", f, o)
    \/ HGetTitle("A")
    \/ HBlockCount("A")
    \/ HGetFormat("A")
    \/ \E p \in HandlePaths, o \in HandleOutcomes : HSaveFile("A", p, o)
    \/ \E p \in HandlePaths, f \in HandleFormats, o \in HandleOutcomes :
           HSaveFileAs("A", p, f, o)
    \/ \E n \in BOOLEAN : HFree("A", n)
    \/ \E n \in BOOLEAN : HFreeString("A", n)
    \/ \E text \in HandleContents, f \in HandleFormats,
          t \in ConvertTargets, n \in BOOLEAN, po \in HandleOutcomes,
          ro \in HandleOutcomes : HConvert("A", text, f, t, n, po, ro)

SpecOwner == InitHandles /\ [][NextOwner]_vars

\* two callers, each working on its own handle
NextHandles ==
    \E c \in Callers :
        \/ \E text \in HandleContents, f \in HandleFormats,
              o \in HandleOutcomes : HParse(c, text, f, o)
        \/ \E f \in HandleFormats, o \in HandleOutcomes : HRender(c, f, o)
        \/ HBlockCount(c)
        \/ HGetFormat(c)
        \/ \E n \in BOOLEAN : HFree(c, n)
        \/ \E n \in BOOLEAN : HFreeString(c, n)

SpecHandles == InitHandles /\ [][NextHandles]_vars

----------------------------------------------------------------------------
(* The document behind a live handle                                       *)

\* the functions that read the document behind a handle
HandleReaders ==
    { "formatrix_render", "formatrix_get_title", "formatrix_block_count",
      "formatrix_get_format", "formatrix_save_file",
      "formatrix_save_file_as" }

\* C21: a Document is never modified by the operations that read it. After
\* any sequence of formatrix_render, formatrix_get_title,
\* formatrix_block_count, formatrix_get_format, formatrix_save_file and
\* formatrix_save_file_as on a live handle, succeeding or failing, the
\* document behind the handle (source_format, meta, content, raw_source) is
\* the one the parse that created the handle produced.
C21_ReadsLeaveDocument ==
    \A c \in Callers :
        owner[c] # 0 =>
            /\ heap[owner[c]] # None
            /\ heap[owner[c]] = created[c]

\* a read of a live handle with a title has failed
C21_Witness ==
    /\ lastCall.fn \in HandleReaders
    /\ owner[lastCall.caller] # 0
    /\ lastCall.ret = "RenderError"
    /\ heap[owner[lastCall.caller]][1].meta.title # None

\* the functions of a caller between its parse and its free
HandleQueries ==
    { "formatrix_render", "formatrix_block_count", "formatrix_get_format" }

\* what the last call returns when its caller runs alone: a function of the
\* caller's arguments and of the document the caller's own parse produced
AloneResult(call, doc) ==
    CASE call.fn = "formatrix_parse" ->
             <<formatrix_parse(call.arg, call.format, FALSE,
                               call.outcome).ret, None>>
      [] call.fn = "formatrix_render" ->
             Let(formatrix_render(doc, call.format, FALSE, FALSE,
                                  call.outcome), LAMBDA r :
                 <<r.ret, r.out_content>>)
      [] call.fn = "formatrix_block_count" ->
             <<"value", formatrix_block_count(doc)>>
      [] call.fn = "formatrix_get_format" ->
             <<"value", formatrix_get_format(doc)>>
      [] OTHER -> <<call.ret, call.out>>

\* C22: independent callers share no mutable state. In every interleaving of
\* two callers that each run formatrix_parse, then formatrix_render,
\* formatrix_block_count and formatrix_get_format calls, then
\* formatrix_free_document on their own handle, each call returns the result
\* code and output it returns when its caller runs alone, and freeing one
\* caller's handle leaves the other's live and unchanged.
C22_CallersIndependent ==
    /\ \A c \in Callers :
           owner[c] # 0 =>
               /\ heap[owner[c]] # None
               /\ heap[owner[c]] = created[c]
               /\ \A d \in Callers \ {c} : owner[d] # owner[c]
    /\ lastCall.fn \in HandleQueries \cup {"formatrix_parse"} =>
           /\ <<lastCall.ret, lastCall.out>> =
                  AloneResult(lastCall, created[lastCall.caller])
           /\ lastCall.fn = "formatrix_parse" /\ lastCall.ret = "Success" =>
                  created[lastCall.caller] =
                      formatrix_parse(lastCall.arg, lastCall.format, FALSE,
                                      lastCall.outcome).doc

\* one caller has freed its handle while the other holds the handle of an
\* AsciiDoc document
C22_Witness ==
    /\ lastCall.fn = "formatrix_free_document"
    /\ lastCall.caller = "B"
    /\ lastCall.events # <<>>
    /\ owner["A"] # 0
    /\ heap[owner["A"]][1].source_format = "AsciiDoc"

----------------------------------------------------------------------------
(* ffi.rs: formatrix_detect_format, the content detector of the C          *)
(* interface                                                               *)

\* formatrix_detect_format: c is None for a null pointer
formatrix_detect_format(c) ==
    IF c = None THEN FfiFormat_from("PlainText")
    ELSE
    Let(CStr_to_str(c[1]), LAMBDA content_str :
    IF ~content_str.ok THEN FfiFormat_from("PlainText")
    ELSE
    Let(trim(content_str.value), LAMBDA trimmed :
    IF starts_with(trimmed, <<"#", "+">>)
       \/ contains(trimmed, <<NL, "#", "+">>)
    THEN FfiFormat_from("OrgMode")
    ELSE IF starts_with(trimmed, <<"=", " ">>)
            \/ starts_with(trimmed, <<":", "t", "o", "c", ":">>)
    THEN FfiFormat_from("AsciiDoc")
    ELSE IF starts_with(trimmed, <<"#", " ">>)
            \/ contains(trimmed, <<BQ, BQ, BQ>>)
    THEN FfiFormat_from("Markdown")
    ELSE IF contains(trimmed, <<"{", ".">>) \/ contains(trimmed, <<"[", "^">>)
    THEN FfiFormat_from("Djot")
    ELSE IF contains(trimmed, <<".", ".", " ">>)
            /\ contains(trimmed, <<":", ":">>)
    THEN FfiFormat_from("ReStructuredText")
    ELSE IF contains(trimmed, <<"#", "l", "e", "t">>)
            \/ contains(trimmed, <<"#", "{">>)
    THEN FfiFormat_from("Typst")
    ELSE FfiFormat_from("PlainText")))

\* a text at hand, not yet handed to either detector
InitDetect ==
    /\ pc = "start"
    /\ ExtIdle /\ AdocIdle /\ FileIdle
    /\ ConvIdle /\ FeatureIdle
    /\ HeapIdle
    /\ \E n \in 0..MaxFragments :
           \E f \in [1..n -> Fragments] : content = Concat(f)
    /\ detected = "unset"
    /\ handle = None
    /\ ffiCall = [fn |-> "none"]

\* formatrix_detect_format(content), or formatrix_detect_format(null)
CallDetectFormat(null_content) ==
    /\ ffiCall.fn = "none"
    /\ ffiCall' =
           [fn |-> "formatrix_detect_format", null |-> null_content,
            ret |-> formatrix_detect_format(
                        IF null_content THEN None ELSE Some(content))]
    /\ UNCHANGED <<pc, handle, contentVars, extVars, adocVars, fileVars,
                   convVars, featureVars, heapVars>>

NextDetect ==
    \/ DetectContent
    \/ \E n \in BOOLEAN : CallDetectFormat(n)

SpecDetect == InitDetect /\ [][NextDetect]_vars

\* C23: formatrix_detect_format returns, for every valid UTF-8 text, the
\* format file_ops::format_from_content returns for it, converted to
\* FfiFormat; the two detectors apply the same rules in the same order.
C23_DetectorsAgree ==
    /\ detected # "unset"
    /\ ffiCall.fn = "formatrix_detect_format"
    /\ ~ffiCall.null
    => ffiCall.ret = FfiFormat_from(detected)

----------------------------------------------------------------------------
(* Allocation and release of handles                                       *)

\* the addresses of the live handles
Live(hp) == { a \in Addresses : hp[a] # None }

\* the handles the callers hold
Held == { owner[c] : c \in Callers } \ {0}

\* what a call may do to handles: nothing, allocate one, or allocate one and
\* release that one
EventsOnce(ev) ==
    \/ ev = <<>>
    \/ \E a \in Addresses : ev = <<<<"alloc", a>>>>
    \/ \E a \in Addresses : ev = <<<<"alloc", a>>, <<"free", a>>>>

\* C24, the state part: formatrix_parse allocates a handle exactly on the
\* path that returns Success; formatrix_convert allocates one handle and
\* releases that handle once when its parse succeeded, whatever its render
\* returned, and allocates none when its parse failed, so the live
\* handles after it are the ones the callers hold; formatrix_free_document
\* on a null pointer releases nothing.
HandlesOnce ==
    /\ Live(heap) = Held
    /\ lastCall.fn = "formatrix_parse" =>
           /\ lastCall.ret = "Success" <=>
                  lastCall.events = <<<<"alloc", owner[lastCall.caller]>>>>
           /\ lastCall.ret # "Success" <=> lastCall.events = <<>>
    /\ lastCall.fn = "formatrix_convert" =>
           /\ EventsOnce(lastCall.events)
           /\ Len(lastCall.events) # 1
           /\ lastCall.events # <<>> <=>
                  /\ lastCall.ret \in {"Success", "RenderError",
                                       "InvalidInput"}
                  /\ formatrix_parse(lastCall.arg, lastCall.format[1], FALSE,
                                     lastCall.outcome[1]).ret = "Success"
    /\ lastCall.fn = "formatrix_free_document" /\ lastCall.arg = 0 =>
           lastCall.events = <<>>

\* the step part: a free of a null pointer leaves the handles and the
\* strings as they are
NullFreeDoesNothing ==
    /\ lastCall'.fn = "formatrix_free_document" /\ lastCall'.arg = 0 =>
           heap' = heap /\ owner' = owner /\ strings' = strings
    /\ lastCall'.fn = "formatrix_free_string" /\ lastCall'.arg = TRUE =>
           heap' = heap /\ owner' = owner /\ strings' = strings

\* C24: document handles are allocated and released exactly once.
\* formatrix_parse allocates a handle only on the path that returns Success;
\* formatrix_convert releases the intermediate handle on every path after a
\* successful parse and allocates none when parsing fails, so after it
\* returns no handle it created is live and none is freed twice;
\* formatrix_free_document and formatrix_free_string on a null pointer do
\* nothing.
C24_HandlesAllocatedAndReleasedOnce ==
    []HandlesOnce /\ [][NullFreeDoesNothing]_vars

\* formatrix_convert failed in its render while the caller held a handle of
\* its own: it had allocated a handle and released it
C24_Witness ==
    /\ lastCall.fn = "formatrix_convert"
    /\ lastCall.ret = "RenderError"
    /\ Len(lastCall.events) = 2
    /\ owner[lastCall.caller] # 0
    /\ Live(heap) = {owner[lastCall.caller]}

----------------------------------------------------------------------------
(* Formats and extensions: the conversions between FfiFormat and           *)
(* SourceFormat, formatrix_format_extension, is_supported_extension        *)

\* formatrix_format_extension
formatrix_format_extension(format) ==
    CASE format = FfiFormat_from("PlainText") -> <<"t", "x", "t">>
      [] format = FfiFormat_from("Markdown") -> <<"m", "d">>
      [] format = FfiFormat_from("AsciiDoc") -> <<"a", "d", "o", "c">>
      [] format = FfiFormat_from("Djot") -> <<"d", "j">>
      [] format = FfiFormat_from("OrgMode") -> <<"o", "r", "g">>
      [] format = FfiFormat_from("ReStructuredText") -> <<"r", "s", "t">>
      [] format = FfiFormat_from("Typst") -> <<"t", "y", "p">>

\* file_ops::supported_extensions
supported_extensions ==
    << <<"t", "x", "t">>, <<"t", "e", "x", "t">>, <<"m", "d">>,
       <<"m", "a", "r", "k", "d", "o", "w", "n">>,
       <<"m", "d", "o", "w", "n">>, <<"m", "k", "d">>,
       <<"a", "d", "o", "c">>, <<"a", "s", "c", "i", "i", "d", "o", "c">>,
       <<"a", "s", "c">>, <<"d", "j">>, <<"d", "j", "o", "t">>,
       <<"o", "r", "g">>, <<"r", "s", "t">>, <<"r", "e", "s", "t">>,
       <<"r", "e", "s", "t", "r", "u", "c", "t", "u", "r", "e", "d",
         "t", "e", "x", "t">>,
       <<"t", "y", "p">>, <<"t", "y", "p", "s", "t">> >>

\* the test without the conversion to lower case
is_supported_extension_CaseSensitive(ext) ==
    \E i \in 1..Len(supported_extensions) : supported_extensions[i] = ext

\* file_ops::is_supported_extension
is_supported_extension(ext) ==
    LET ext_lower == to_lowercase(ext) IN
    \E i \in 1..Len(supported_extensions) :
        supported_extensions[i] = ext_lower

\* formatrix_detect_file_format: p is None for a null pointer
formatrix_detect_file_format(p) ==
    IF p = None THEN FfiFormat_from("PlainText")
    ELSE
    Let(CStr_to_str(p[1]), LAMBDA path_str :
    IF ~path_str.ok THEN FfiFormat_from("PlainText")
    ELSE
    Let(format_from_extension(path_str.value), LAMBDA format :
    IF format # None THEN FfiFormat_from(format[1])
    ELSE FfiFormat_from("PlainText")))

\* SourceFormat::from(f) for an FfiFormat f
CallSourceFormatFrom(f) ==
    /\ ffiCall.fn = "none"
    /\ ffiCall' = [fn |-> "SourceFormat::from", arg |-> f,
                   ret |-> SourceFormat_from(f)]
    /\ UNCHANGED <<pc, handle, contentVars, extVars, adocVars, fileVars,
                   convVars, featureVars, heapVars>>

\* FfiFormat::from(f) for a SourceFormat f
CallFfiFormatFrom(f) ==
    /\ ffiCall.fn = "none"
    /\ ffiCall' = [fn |-> "FfiFormat::from", arg |-> f,
                   ret |-> FfiFormat_from(f)]
    /\ UNCHANGED <<pc, handle, contentVars, extVars, adocVars, fileVars,
                   convVars, featureVars, heapVars>>

\* formatrix_format_extension(f)
CallFormatExtension(f) ==
    /\ ffiCall.fn = "none"
    /\ ffiCall' = [fn |-> "formatrix_format_extension", arg |-> f,
                   ret |-> formatrix_format_extension(f)]
    /\ UNCHANGED <<pc, handle, contentVars, extVars, adocVars, fileVars,
                   convVars, featureVars, heapVars>>

\* is_supported_extension(e) for the extension e of the path at hand
CallIsSupportedExtension ==
    /\ Path_extension(path) # None
    /\ ffiCall.fn = "none"
    /\ ffiCall' = [fn |-> "is_supported_extension",
                   arg |-> Path_extension(path)[1],
                   ret |-> is_supported_extension(Path_extension(path)[1])]
    /\ UNCHANGED <<pc, handle, contentVars, extVars, adocVars, fileVars,
                   convVars, featureVars, heapVars>>

\* formatrix_detect_file_format(path), or formatrix_detect_file_format(null)
CallDetectFileFormat(null_path) ==
    /\ ffiCall.fn = "none"
    /\ ffiCall' = [fn |-> "formatrix_detect_file_format",
                   arg |-> IF null_path THEN None ELSE Some(path),
                   ret |-> formatrix_detect_file_format(
                               IF null_path THEN None ELSE Some(path))]
    /\ UNCHANGED <<pc, handle, contentVars, extVars, adocVars, fileVars,
                   convVars, featureVars, heapVars>>

NextFormats ==
    \/ DetectExtension
    \/ \E f \in FfiFormat : CallSourceFormatFrom(f)
    \/ \E f \in SourceFormat : CallFfiFormatFrom(f)
    \/ \E f \in FfiFormat : CallFormatExtension(f)
    \/ CallIsSupportedExtension
    \/ \E n \in BOOLEAN : CallDetectFileFormat(n)

SpecFormats == InitExtension /\ [][NextFormats]_vars

\* C25: the conversions between FfiFormat and SourceFormat are mutually
\* inverse bijections over the seven formats; for every format F the
\* extension formatrix_format_extension(F) returns is mapped back to F by
\* format_from_extension; and is_supported_extension(e) is true exactly when
\* format_from_extension on a path with extension e returns Some.
C25_FormatsAndExtensions ==
    /\ ffiCall.fn = "SourceFormat::from" =>
           /\ ffiCall.ret \in SourceFormat
           /\ FfiFormat_from(ffiCall.ret) = ffiCall.arg
           /\ \A g \in FfiFormat \ {ffiCall.arg} :
                  SourceFormat_from(g) # ffiCall.ret
    /\ ffiCall.fn = "FfiFormat::from" =>
           /\ ffiCall.ret \in FfiFormat
           /\ SourceFormat_from(ffiCall.ret) = ffiCall.arg
           /\ \A g \in SourceFormat \ {ffiCall.arg} :
                  FfiFormat_from(g) # ffiCall.ret
    /\ ffiCall.fn = "formatrix_format_extension" =>
           \A d \in Dirs :
               format_from_extension(d \o <<"f", ".">> \o ffiCall.ret) =
                   Some(SourceFormat_from(ffiCall.arg))
    /\ ffiCall.fn = "is_supported_extension" /\ pc = "done" =>
           (ffiCall.ret <=> extFormat # None)

\* is_supported_extension accepted an extension written with capitals, on a
\* path format_from_extension resolved
C25_Witness ==
    /\ ffiCall.fn = "is_supported_extension"
    /\ pc = "done"
    /\ ffiCall.ret
    /\ ffiCall.arg # to_lowercase(ffiCall.arg)
    /\ extFormat # None

----------------------------------------------------------------------------
(* The shape of the AsciiDoc renderer's output: Documents of up to         *)
(* MaxShapeBlocks blocks, with and without title                           *)

MaxShapeBlocks == 2

\* titles, one of them ending in a newline
ShapeTitles == { None, Some(<<"T">>), Some(<<"T", NL>>) }

\* blocks whose rendering ends in a newline (the List) and blocks whose
\* rendering does not
ShapePool ==
    << Paragraph(<<Text(<<"p">>)>>),
       Paragraph(<<Text(<<"q">>)>>),
       Heading(2, <<Text(<<"h">>)>>, None),
       CodeBlock(None, <<"f", NL>>),
       List("Bullet", <<ListItem(<<Paragraph(<<Text(<<"a">>)>>)>>, None)>>,
            None),
       ThematicBreak >>

InitShape ==
    /\ pc = "start"
    /\ ContentIdle /\ ExtIdle /\ FileIdle /\ FfiIdle
    /\ ConvIdle /\ FeatureIdle
    /\ HeapIdle
    /\ \E t \in ShapeTitles, n \in 0..MaxShapeBlocks :
          \E ix \in [1..n -> 1..Len(ShapePool)] :
              srcDoc = Document("AsciiDoc", t,
                                [k \in 1..n |-> ShapePool[ix[k]]], None)
    /\ parseConfig = <<>>
    /\ rendered = None
    /\ parseInput = <<>>
    /\ parsed = None

SpecShape == InitShape /\ [][Render]_vars

\* the title line of a Document, nothing when it has no title
TitleLine(doc) ==
    IF doc.meta.title = None THEN <<>>
    ELSE <<"=", " ">> \o doc.meta.title[1]

\* the title line, a blank line, and the blocks of the content in content
\* order, each followed by a blank line
ShapeOf(doc) ==
    (IF doc.meta.title = None THEN <<>> ELSE TitleLine(doc) \o <<NL, NL>>)
    \o Concat([k \in 1..Len(doc.content) |->
                  render_block(doc.content[k]) \o <<NL, NL>>])

\* out is s without the newlines at its end
IsTrimmed(out, s) ==
    /\ ~ends_with(out, <<NL>>)
    /\ \E k \in 0..Len(s) : out \o Repeat(NL, k) = s

\* C26 as stated: when meta.title is present the output starts with
\* `= <title>`; the blocks are emitted in content order, each followed by a
\* blank-line separator; and the output never ends with a newline.
C26_AsStated ==
    pc = "rendered" =>
        /\ IsTrimmed(rendered[1], ShapeOf(srcDoc))
        /\ starts_with(rendered[1], TitleLine(srcDoc))

\* C26, amended: the output is the title line `= <title>` followed by a
\* blank line (when meta.title is present) and the blocks in content order,
\* each followed by a blank-line separator, with all newlines at the end
\* removed; so it never ends with a newline, and it starts with `= <title>`
\* less the newlines the title itself ends with when nothing but newlines
\* follows the title.
C26_OutputShape ==
    pc = "rendered" =>
        /\ IsTrimmed(rendered[1], ShapeOf(srcDoc))
        /\ starts_with(rendered[1], TrimTrailingNewlines(TitleLine(srcDoc)))
        /\ (\/ ~ends_with(TitleLine(srcDoc), <<NL>>)
            \/ \E k \in 1..Len(srcDoc.content) :
                   TrimTrailingNewlines(render_block(srcDoc.content[k]))
                       # <<>>)
           => starts_with(rendered[1], TitleLine(srcDoc))

\* a Document with a title and two different blocks, the last of them with
\* a rendering that ends in a newline, was rendered
C26_Witness ==
    /\ pc = "rendered"
    /\ srcDoc.meta.title # None
    /\ Len(srcDoc.content) = 2
    /\ srcDoc.content[1] # srcDoc.content[2]
    /\ ends_with(render_block(srcDoc.content[2]), <<NL>>)

----------------------------------------------------------------------------
(* The labels of list items: Documents of one List of up to MaxItems       *)
(* items, with starts at both ends of the range of u32                     *)

MaxItems == 2

\* the starts of the lists: absent, small, and at the end of the range
ListStarts ==
    { None, Some(u32(1)), Some(u32(9)),
      Some(<<Limb - 1, Limb - 2>>), Some(u32_MAX) }

ListKinds == {"Bullet", "Ordered", "Task"}

\* the checked states of an item
CheckedStates == << None, Some(TRUE), Some(FALSE) >>

InitList ==
    /\ pc = "start"
    /\ ContentIdle /\ ExtIdle /\ FileIdle /\ FfiIdle
    /\ ConvIdle /\ FeatureIdle
    /\ HeapIdle
    /\ \E kind \in ListKinds, start \in ListStarts, n \in 0..MaxItems :
          \E ix \in [1..n -> 1..Len(CheckedStates)] :
              srcDoc =
                  Document("AsciiDoc", None,
                      <<List(kind,
                             [k \in 1..n |->
                                 ListItem(<<Paragraph(<<Text(<<"a">>)>>)>>,
                                          CheckedStates[ix[k]])],
                             start)>>,
                      None)
    /\ parseConfig = <<>>
    /\ rendered = None
    /\ parseInput = <<>>
    /\ parsed = None

SpecList == InitList /\ [][Render]_vars

\* the prefix the claim gives for item number i (from 0) of the list b
ItemPrefix(b, i) ==
    CASE b.list_kind = "Bullet" -> <<"*", " ">>
      [] b.list_kind = "Ordered" ->
             Decimal_u32(u32_add(IF b.start = None THEN u32(1)
                                 ELSE b.start[1], i).value)
             \o <<".", " ">>
      [] b.list_kind = "Task" ->
             IF b.items[i + 1].checked = Some(TRUE)
             THEN <<"*", " ", "[", "x", "]", " ">>
             ELSE <<"*", " ", "[", " ", "]", " ">>

\* the lines of the list b, each the prefix of its item and the item's text
ListLines(b) ==
    Concat([k \in 1..Len(b.items) |->
               ItemPrefix(b, k - 1) \o <<"a", NL>>])

\* C27: for every Ordered list with optional start s (default 1) and n
\* items the renderer labels item i (from 0) with s + i computed in 32-bit
\* unsigned arithmetic, and rendering neither panics nor emits a
\* wrapped-around number for any s and n, including s close to 2^32 - 1;
\* Bullet items are prefixed `* ` and Task items `* [x] ` or `* [ ] `, an
\* absent checked state being rendered as unchecked.
C27_ListLabels ==
    pc # "start" =>
        /\ pc = "rendered"
        /\ rendered[1] = TrimTrailingNewlines(ListLines(srcDoc.content[1]))
        /\ srcDoc.content[1].list_kind = "Ordered" =>
               \A i \in 0..(Len(srcDoc.content[1].items) - 1) :
                   ~u32_add(unwrap_or(srcDoc.content[1].start, u32(1)),
                            i).overflow

\* the same for the lists whose numbers stay within 32 bits
ListLabelsInRange ==
    pc # "start" /\ ~AddOverflows(srcDoc.content[1]) =>
        /\ pc = "rendered"
        /\ rendered[1] = TrimTrailingNewlines(ListLines(srcDoc.content[1]))

----------------------------------------------------------------------------
(* convert_blocks at work on documents of the asciidoc_parser tree with up *)
(* to MaxTopBlocks top-level blocks                                        *)

MaxTopBlocks == 3

\* the top-level blocks at hand: blocks with a counterpart, blocks with
\* nested blocks, a comment and a document-attribute declaration
AdocTopPool ==
    <<AdocSimple(<<"p">>),
      AdocSimple(<<"q">>),
      AdocSection(1, <<"s">>, <<AdocSimple(<<"p">>)>>),
      AdocRawDelimited("comment", <<"c">>, None),
      AdocDocumentAttribute,
      AdocPreamble(<<AdocSimple(<<"a">>), AdocSimple(<<"b">>)>>),
      AdocCompoundDelimited("open", <<AdocSimple(<<"r">>),
                                      AdocSimple(<<"t">>)>>),
      AdocCompoundDelimited("quote", <<AdocSimple(<<"r">>),
                                       AdocSimple(<<"t">>)>>),
      AdocBreak>>

\* adocBlock holds the document the asciidoc_parser crate returned
InitBlocks ==
    /\ pc = "start"
    /\ ContentIdle /\ ExtIdle /\ AdocIdle /\ FileIdle /\ FfiIdle
    /\ FeatureIdle
    /\ HeapIdle
    /\ \E n \in 0..MaxTopBlocks :
           \E ix \in [1..n -> 1..Len(AdocTopPool)] :
               adocBlock = AdocDocument(None,
                               [k \in 1..n |-> AdocTopPool[ix[k]]])
    /\ converted = "unset"

\* let content = convert_blocks(&adoc_doc)
ConvertBlocks ==
    /\ pc = "start"
    /\ \E r \in {convert_blocks(adocBlock)} : converted' = r
    /\ pc' = "converted"
    /\ UNCHANGED <<adocBlock, contentVars, extVars, adocVars, fileVars,
                   ffiVars, featureVars, heapVars>>

SpecBlocks == InitBlocks /\ [][ConvertBlocks]_vars

\* a comment block or a document-attribute declaration
IsCommentOrAttribute(b) ==
    \/ b.kind = "DocumentAttribute"
    \/ b.kind = "RawDelimited" /\ b.context = "comment"

\* C28: each top-level source block contributes at most one Block to
\* Document.content, the emitted blocks keep the relative order of the
\* source blocks they came from, and comment blocks and document-attribute
\* declarations contribute no Block; so the length of content never exceeds
\* the number of top-level source blocks.
C28_AtMostOneBlockEach ==
    pc = "converted" =>
        LET src == adocBlock.blocks
            each == [k \in 1..Len(src) |-> convert_block(src[k])]
        IN  /\ \A k \in 1..Len(src) :
                   /\ Len(each[k]) <= 1
                   /\ IsCommentOrAttribute(src[k]) => each[k] = None
            /\ converted = Concat(each)
            /\ Len(converted) <= Len(src)

\* three top-level blocks were converted to two different Blocks: the one
\* in the middle, a comment, contributed none
C28_Witness ==
    /\ pc = "converted"
    /\ Len(adocBlock.blocks) = 3
    /\ IsCommentOrAttribute(adocBlock.blocks[2])
    /\ adocBlock.blocks[1].kind = "Preamble"
    /\ Len(converted) = 2
    /\ converted[1] # converted[2]

====
